---- MODULE Spec2Model ----
(***************************************************************************)
(* Lucien: the durable processing engine (catalog, extraction supervisor,  *)
(* labeling loop, scanner) as a state machine.                             *)
(*                                                                         *)
(* Time is counted in tenths of a second, so 600.0 s is 6000.              *)
(***************************************************************************)
EXTENDS Integers, Sequences, FiniteSets, TLC

(* ---------------------------------------------------------------------- *)
(* Bounds of the model                                                     *)
(* ---------------------------------------------------------------------- *)
\* number of files in the source tree
NumFiles == 5
\* largest --workers value tried (after the clamp of cli.py:343)
MaxWorkers == 2
\* page size of the batch iterator (cli.py:369 passes 100; scaled down)
PageSize == 1
\* number of calls a caller makes when the catalog is used as a library
MaxCalls == 3
\* the largest llm.max_retries tried
MaxRetries == 2
\* the largest extraction.max_text_length tried
MaxTextLength == 4
\* the most pipelines constructed in one process before a call of extract_file
MaxPipelines == 2
\* entries in a directory tree that is walked, the root apart
MaxNodes == 3
\* number of files in the larger source tree of the supply runs
LargeTree == 11

(* ---------------------------------------------------------------------- *)
(* Values                                                                  *)
(* ---------------------------------------------------------------------- *)
Null == "NULL"
\* db.py: the schema version this code writes
SCHEMA_VERSION == 1
\* strftime('%s','now'): some timestamp, its value is never compared
Timestamp == "now"

\* cli.py:549, in tenths of a second
HUNG_WORKER_TIMEOUT == 6000
\* cli.py:653, in tenths of a second
SLOW_WORKER_TIME == 1200
\* an elapsed time above every threshold; larger readings are stored as this
ElapsedCap == HUNG_WORKER_TIMEOUT + 1
\* the time that may pass between two sweeps of the supervisor: next to none
\* (the 50-100 ms sleep), or enough to bring a task to the hang threshold
Deltas == {0, HUNG_WORKER_TIMEOUT - 1, HUNG_WORKER_TIMEOUT, HUNG_WORKER_TIMEOUT + 1}

Min(a, b) == IF a <= b THEN a ELSE b
Max(a, b) == IF a >= b THEN a ELSE b

\* the rows of a table (a sequence) as a set
Rows(t) == {t[i] : i \in 1..Len(t)}

(* ---------------------------------------------------------------------- *)
(* The source tree and the configuration                                   *)
(* ---------------------------------------------------------------------- *)
\* paths are numbered in their sort order
Paths == 1..NumFiles
\* the suffix of each path as written on disk
PathSuffix(p) == IF p = 2 THEN ".JPG" ELSE IF p % 2 = 1 THEN ".txt" ELSE ".pdf"
\* what is stored at a path: a file every extractor of its type can read, a
\* file every extractor fails on, page images that only OCR can read, or a
\* readable office document (the path then ends in .docx)
FileKinds == {"readable", "corrupt", "scanned", "office"}
\* the source trees tried: what is stored at each path
Trees == {[p \in Paths |-> "readable"],
          [p \in Paths |-> IF p <= 2 THEN "readable" ELSE IF p = 3 THEN "corrupt"
                           ELSE IF p = 4 THEN "office" ELSE "readable"],
          [p \in Paths |-> IF p = 1 THEN "corrupt" ELSE IF p = 4 THEN "scanned"
                           ELSE "readable"]}
\* file_path.suffix of the file stored at a path
FileSuffix(p, kind) == IF kind = "office" THEN ".docx" ELSE PathSuffix(p)
\* str.lower() / SQL LOWER() on the suffixes that occur
Lower(s) == IF s = ".JPG" THEN ".jpg" ELSE s
\* config.extraction.skip_extensions (the ones that matter here)
skip_extensions == {".jpg", ".png"}
\* compute_hash: the SHA256 of a file's bytes, taken as free of collisions, so
\* that the digest names the bytes
Digest(bytes) == bytes

(* ---------------------------------------------------------------------- *)
(* Catalog: runs                                                           *)
(* ---------------------------------------------------------------------- *)
\* INSERT INTO runs (run_type, config): status defaults to 'running'
create_run(rs, run_type) ==
    Append(rs, [id |-> Len(rs) + 1, run_type |-> run_type, status |-> "running",
                completed_at |-> Null, error |-> Null])

\* Python truthiness of an optional string
Truthy(s) == s # Null /\ s # ""

complete_run_nostamp(rs, run_id, error) ==
    [i \in 1..Len(rs) |->
        IF rs[i].id = run_id
        THEN [rs[i] EXCEPT !.status = IF Truthy(error) THEN "failed" ELSE "completed",
                           !.error = error]
        ELSE rs[i]]

\* UPDATE runs SET completed_at = now, status = ?, error = ? WHERE id = ?
complete_run(rs, run_id, error) ==
    [i \in 1..Len(rs) |->
        IF rs[i].id = run_id
        THEN [rs[i] EXCEPT !.completed_at = Timestamp,
                           !.status = IF Truthy(error) THEN "failed" ELSE "completed",
                           !.error = error]
        ELSE rs[i]]

(* ---------------------------------------------------------------------- *)
(* Catalog: files                                                          *)
(* ---------------------------------------------------------------------- *)
insert_file_noconflict(fs, path, sha256, scan_run_id) ==
    Append(fs, [id |-> Len(fs) + 1, path |-> path, sha256 |-> sha256,
                scan_run_id |-> scan_run_id])

\* INSERT INTO files ... ON CONFLICT(path) DO UPDATE SET sha256, ..., scan_run_id
insert_file(fs, path, sha256, scan_run_id) ==
    IF \E i \in 1..Len(fs) : fs[i].path = path
    THEN [i \in 1..Len(fs) |->
            IF fs[i].path = path
            THEN [fs[i] EXCEPT !.sha256 = sha256, !.scan_run_id = scan_run_id]
            ELSE fs[i]]
    ELSE Append(fs, [id |-> Len(fs) + 1, path |-> path, sha256 |-> sha256,
                     scan_run_id |-> scan_run_id])

(* ---------------------------------------------------------------------- *)
(* Catalog: extractions                                                    *)
(* ---------------------------------------------------------------------- *)
\* an error message: its fixed text, and what is formatted into it (seconds
\* elapsed, or the suffix or the inner error it quotes)
NoError == [msg |-> Null, elapsed |-> 0, detail |-> Null]
\* a NULL output_path; a sidecar path <root>/<digest>.txt.gz is written as its digest
NoPath == 0

insert_extraction_noconflict(es, file_id, run_id, method, status, output_path, error) ==
    Append(es, [id |-> Len(es) + 1, file_id |-> file_id, extraction_run_id |-> run_id,
                method |-> method, status |-> status, output_path |-> output_path,
                error |-> error])

\* INSERT INTO extractions ... ON CONFLICT(file_id, extraction_run_id) DO UPDATE
insert_extraction(es, file_id, run_id, method, status, output_path, error) ==
    IF \E i \in 1..Len(es) : es[i].file_id = file_id /\ es[i].extraction_run_id = run_id
    THEN [i \in 1..Len(es) |->
            IF es[i].file_id = file_id /\ es[i].extraction_run_id = run_id
            THEN [es[i] EXCEPT !.method = method, !.status = status,
                               !.output_path = output_path, !.error = error]
            ELSE es[i]]
    ELSE Append(es, [id |-> Len(es) + 1, file_id |-> file_id, extraction_run_id |-> run_id,
                     method |-> method, status |-> status, output_path |-> output_path,
                     error |-> error])

record_extraction_byfile(es, file_id, run_id, result) ==
    IF \E i \in 1..Len(es) : es[i].file_id = file_id
    THEN [i \in 1..Len(es) |->
            IF es[i].file_id = file_id
            THEN [es[i] EXCEPT !.extraction_run_id = run_id, !.method = result.method,
                               !.status = result.status,
                               !.output_path = result.output_path,
                               !.error = result.error]
            ELSE es[i]]
    ELSE insert_extraction(es, file_id, run_id, result.method, result.status,
                           result.output_path, result.error)

\* record_extraction builds the record and calls insert_extraction
record_extraction(es, file_id, run_id, result) ==
    insert_extraction(es, file_id, run_id, result.method, result.status,
                      result.output_path, result.error)

(* ---------------------------------------------------------------------- *)
(* Catalog: labels                                                         *)
(* ---------------------------------------------------------------------- *)
\* LabelOutput: the validated response of the model; confidence in hundredths
LabelOutput(doc_type, confidence, date, issuer, why) ==
    [doc_type |-> doc_type, confidence |-> confidence, date |-> date,
     issuer |-> issuer, why |-> why]

\* INSERT INTO labels ... ON CONFLICT(file_id, labeling_run_id) DO UPDATE
insert_label(ls, file_id, run_id, label, model_name) ==
    IF \E i \in 1..Len(ls) : ls[i].file_id = file_id /\ ls[i].labeling_run_id = run_id
    THEN [i \in 1..Len(ls) |->
            IF ls[i].file_id = file_id /\ ls[i].labeling_run_id = run_id
            THEN [ls[i] EXCEPT !.doc_type = label.doc_type,
                               !.confidence = label.confidence,
                               !.date = label.date, !.issuer = label.issuer,
                               !.why = label.why, !.model_name = model_name]
            ELSE ls[i]]
    ELSE Append(ls, [id |-> Len(ls) + 1, file_id |-> file_id, labeling_run_id |-> run_id,
                     doc_type |-> label.doc_type, confidence |-> label.confidence,
                     date |-> label.date, issuer |-> label.issuer, why |-> label.why,
                     model_name |-> model_name])

\* record_label builds the record and calls insert_label
record_label(ls, file_id, run_id, label, model_name) ==
    insert_label(ls, file_id, run_id, label, model_name)

(* ---------------------------------------------------------------------- *)
(* Catalog: work-queue queries                                             *)
(* ---------------------------------------------------------------------- *)
\* f has an extraction row with status = 'success'
HasSuccess(es, file_id) ==
    \E i \in 1..Len(es) : es[i].file_id = file_id /\ es[i].status = "success"

\* LOWER(f.path) NOT LIKE '%<ext>' for every ext of the skip list
NotSkipped(path) == Lower(PathSuffix(path)) \notin skip_extensions

\* ORDER BY f.path
RECURSIVE SortByPath(_)
SortByPath(S) ==
    IF S = {} THEN <<>>
    ELSE LET m == CHOOSE f \in S : \A g \in S : f.path <= g.path
         IN  <<m>> \o SortByPath(S \ {m})

LimitOffset_first(seq, n, k) == SubSeq(seq, 1, Min(Len(seq), n))

\* LIMIT n OFFSET k
LimitOffset(seq, n, k) == SubSeq(seq, k + 1, Min(Len(seq), k + n))

\* the WHERE clause of the files-needing-extraction query
NeedsExtraction(fs, es, force) ==
    {f \in Rows(fs) : (force \/ ~HasSuccess(es, f.id)) /\ NotSkipped(f.path)}

file_info(f) == [id |-> f.id, path |-> f.path, sha256 |-> f.sha256]

\* get_files_for_extraction(force, offset, batch_size, skip_extensions)
get_files_for_extraction(fs, es, force, offset, batch_size) ==
    LET sorted == SortByPath(NeedsExtraction(fs, es, force))
        page   == LimitOffset(sorted, batch_size, offset)
    IN  [i \in 1..Len(page) |-> file_info(page[i])]

\* count_files_for_extraction(force, skip_extensions)
count_files_for_extraction(fs, es, force) ==
    Cardinality(NeedsExtraction(fs, es, force))

NeedsLabeling_anystatus(fs, es, ls, force) ==
    {f \in Rows(fs) : (\E i \in 1..Len(es) : es[i].file_id = f.id)
                      /\ (force \/ ~(\E i \in 1..Len(ls) : ls[i].file_id = f.id))}

\* files f INNER JOIN extractions e ON f.id = e.file_id AND e.status = 'success'
\* [LEFT JOIN labels l ON f.id = l.file_id WHERE l.id IS NULL]: the joined rows,
\* each a pair of row numbers (file, extraction)
LabelingJoin(fs, es, ls, force) ==
    {p \in (1..Len(fs)) \X (1..Len(es)) :
        /\ es[p[2]].file_id = fs[p[1]].id /\ es[p[2]].status = "success"
        /\ (force \/ ~(\E k \in 1..Len(ls) : ls[k].file_id = fs[p[1]].id))}

\* GROUP BY f.id / COUNT(DISTINCT f.id): the files of the joined rows
NeedsLabeling(fs, es, ls, force) ==
    {fs[p[1]] : p \in LabelingJoin(fs, es, ls, force)}

\* MAX(e.output_path) over the success rows of a file (NULLs are ignored)
MaxOutputPath(es, file_id) ==
    LET ps == {es[i].output_path : i \in {j \in 1..Len(es) :
                    es[j].file_id = file_id /\ es[j].status = "success"}} \ {NoPath}
    IN  IF ps = {} THEN NoPath ELSE CHOOSE p \in ps : \A q \in ps : q <= p

\* the joined rows in ORDER BY f.path (ties in row order)
RECURSIVE SortJoin(_, _)
SortJoin(J, fs) ==
    IF J = {} THEN <<>>
    ELSE LET m == CHOOSE p \in J : \A q \in J :
                      \/ fs[p[1]].path < fs[q[1]].path
                      \/ fs[p[1]].path = fs[q[1]].path /\ p[1] < q[1]
                      \/ p[1] = q[1] /\ p[2] <= q[2]
         IN  <<m>> \o SortJoin(J \ {m}, fs)

get_files_for_labeling_nogroup(fs, es, ls, force, limit) ==
    LET sorted == SortJoin(LabelingJoin(fs, es, ls, force), fs)
        page   == IF limit # 0 THEN LimitOffset(sorted, limit, 0) ELSE sorted
    IN  [i \in 1..Len(page) |->
            [id |-> fs[page[i][1]].id, path |-> fs[page[i][1]].path,
             sha256 |-> fs[page[i][1]].sha256,
             extraction_path |-> es[page[i][2]].output_path]]

\* get_files_for_labeling(force, limit)
get_files_for_labeling(fs, es, ls, force, limit) ==
    LET sorted == SortByPath(NeedsLabeling(fs, es, ls, force))
        page   == IF limit # 0 THEN LimitOffset(sorted, limit, 0) ELSE sorted
    IN  [i \in 1..Len(page) |->
            [id |-> page[i].id, path |-> page[i].path, sha256 |-> page[i].sha256,
             extraction_path |-> MaxOutputPath(es, page[i].id)]]

\* count_files_for_labeling(force)
count_files_for_labeling(fs, es, ls, force) ==
    Cardinality(NeedsLabeling(fs, es, ls, force))

(* ---------------------------------------------------------------------- *)
(* The batch iterator (a generator: its locals are its state)              *)
(* ---------------------------------------------------------------------- *)
NewIterator == [offset |-> 0, processed |-> 0, done |-> FALSE]

\* one next() on iter_files_for_extraction; an empty batch is StopIteration
iter_files_for_extraction(it, fs, es, force, limit, batch_size) ==
    IF it.done THEN [batch |-> <<>>, it |-> it]
    ELSE IF limit # 0 /\ limit - it.processed <= 0
    THEN [batch |-> <<>>, it |-> [it EXCEPT !.done = TRUE]]
    ELSE LET current_batch_size ==
                 IF limit # 0 THEN Min(batch_size, limit - it.processed) ELSE batch_size
             batch == get_files_for_extraction(fs, es, force, it.offset, current_batch_size)
         IN  IF batch = <<>>
             THEN [batch |-> <<>>, it |-> [it EXCEPT !.done = TRUE]]
             ELSE [batch |-> batch,
                   it |-> [offset    |-> it.offset + Len(batch),
                           processed |-> it.processed + Len(batch),
                           done      |-> limit # 0 /\ it.processed + Len(batch) >= limit]]

(* ---------------------------------------------------------------------- *)
(* State                                                                   *)
(* ---------------------------------------------------------------------- *)
VARIABLES
    runs,             \* catalog table runs
    files,            \* catalog table files
    extractions,      \* catalog table extractions
    labels,           \* catalog table labels
    pc,               \* where the running CLI command is: idle, extract, scan, label
    cmd,              \* the running command: its options and the run it created
    log,              \* the commands that have ended, with how they ended
    batch_iterator,   \* extract: locals of the batch generator
    task_queue,       \* extract: deque of file_info waiting for a worker
    active_jobs,      \* extract: handle -> (file_info, elapsed since submission, worker_slot)
    next_worker_slot, \* extract: number of tasks submitted so far; also names the handle
    worker_status,    \* extract: slot -> what the display shows (file and state)
    pool,             \* extract: handle -> the task in the pool and its result,
                      \*          until the supervisor fetches it or nobody holds the handle
    label_files,      \* label: the files still to be labeled by the loop
    disk,             \* the source tree: path -> kind of content
    calls,            \* catalog used as a library: number of calls made
    last_call,        \* catalog used as a library: the last call and the id it returned
    config,           \* label: llm.max_retries and the --no-escalate flag
    llm,              \* label: locals of the LLM client while label_file runs
    stats,            \* label: the loop's counters and its list of errors
    last_result,      \* label: what the last label_file returned
    schema_version,   \* catalog table schema_version: the versions recorded
    content,          \* the source tree: path -> version of the file's bytes
    sidecars,         \* extracted_text_dir: the sidecar files, named by digest
    walk              \* scan: a directory tree and the generator iter_files on it

vars == <<runs, files, extractions, labels, pc, cmd, log, batch_iterator, task_queue,
          active_jobs, next_worker_slot, worker_status, pool, label_files, disk,
          calls, last_call, config, llm, stats, last_result, schema_version,
          content, sidecars, walk>>

catalog == <<runs, files, extractions, labels>>
supervisor == <<batch_iterator, task_queue, active_jobs, next_worker_slot,
                worker_status, pool>>
api == <<calls, last_call>>
labeling == <<config, llm, stats, last_result>>

(* ---------------------------------------------------------------------- *)
(* LLM client                                                              *)
(* ---------------------------------------------------------------------- *)
\* config.llm.escalation_threshold (0.7), in hundredths
escalation_threshold == 70
\* config.llm.escalation_doc_types
escalation_doc_types == {"taxes", "medical", "legal", "insurance"}
\* config.doc_types: the controlled vocabulary
doc_types ==
    {"identity", "legal", "contract", "deed", "will",
     "medical", "prescription", "lab_result", "insurance_eob",
     "financial", "bank_statement", "investment", "receipt",
     "tax", "w2", "1099", "1040",
     "insurance", "policy", "claim",
     "home", "mortgage", "utility", "repair",
     "vehicle", "registration", "maintenance",
     "work", "payslip", "401k", "retirement",
     "travel", "passport", "visa", "itinerary", "booking",
     "photo", "video", "media",
     "other", "uncategorized"}

\* no LabelOutput (None)
NoLabel == LabelOutput(Null, 0, Null, Null, <<>>)
\* no exception
NoFailure == [raised |-> FALSE, attempts |-> 0, last_error |-> Null]

\* what a chat-completion request can come back with: an exception of the
\* transport, a body that is not JSON, or a JSON object with these fields
ResponseKinds == {"exception", "not_json", "json"}
DocTypeInputs == {"medical", "financial", "receipt", "bogus"}
Confidences == {-1, 69, 70, 101}
\* a missing date is None, a missing issuer an empty string
Dates == {Null, "2024-01-15"}
Issuers == {"", "Acme"}
NoResponse == [kind |-> "none", doc_type |-> Null, confidence |-> 0, date |-> Null,
               issuer |-> Null]
Responses ==
    {[NoResponse EXCEPT !.kind = "exception"], [NoResponse EXCEPT !.kind = "not_json"]}
    \cup {r \in [kind : {"json"}, doc_type : DocTypeInputs, confidence : Confidences,
                  date : Dates, issuer : Issuers] :
              /\ Truthy(r.date) \/ Truthy(r.issuer)
              /\ r.confidence \in {-1, 101} =>
                     r.doc_type = "receipt" /\ Truthy(r.date) /\ Truthy(r.issuer)}

should_escalate_le(initial_result) ==
    \/ initial_result # NoLabel /\ initial_result.doc_type \in escalation_doc_types
    \/ initial_result # NoLabel /\ initial_result.confidence <= escalation_threshold
    \/ /\ initial_result # NoLabel
       /\ ~Truthy(initial_result.date) \/ ~Truthy(initial_result.issuer)
       /\ initial_result.doc_type \in {"financial", "tax", "medical", "insurance", "legal"}

\* LLMClient.should_escalate
should_escalate(initial_result) ==
    IF initial_result # NoLabel /\ initial_result.doc_type \in escalation_doc_types
    THEN TRUE
    ELSE IF initial_result # NoLabel
            /\ initial_result.confidence < escalation_threshold
    THEN TRUE
    ELSE IF /\ initial_result # NoLabel
            /\ ~Truthy(initial_result.date) \/ ~Truthy(initial_result.issuer)
            /\ initial_result.doc_type \in
                   {"financial", "tax", "medical", "insurance", "legal"}
    THEN TRUE
    ELSE FALSE

\* LabelOutput(**label_data): pydantic accepts confidence in [0.0, 1.0] only
Validates(r) == r.confidence >= 0 /\ r.confidence <= 100

ParseResponse_nocorrect(r) ==
    IF r.kind = "exception" THEN [label |-> NoLabel, error |-> "LLM call failed"]
    ELSE IF r.kind = "not_json" \/ ~Validates(r)
    THEN [label |-> NoLabel, error |-> "Invalid JSON response"]
    ELSE [label |-> LabelOutput(r.doc_type, r.confidence, r.date, r.issuer, <<"why">>),
          error |-> Null]

\* one iteration of label_document's loop after the request came back:
\* json.loads, LabelOutput(**label_data), the vocabulary correction, or the
\* except branch that sets last_error
ParseResponse(r) ==
    IF r.kind = "exception" THEN [label |-> NoLabel, error |-> "LLM call failed"]
    ELSE IF r.kind = "not_json" \/ ~Validates(r)
    THEN [label |-> NoLabel, error |-> "Invalid JSON response"]
    ELSE IF r.doc_type \notin doc_types
    THEN [label |-> LabelOutput("other", r.confidence, r.date, r.issuer,
                                <<"[Auto-corrected from '", r.doc_type, "'] ", "why">>),
          error |-> Null]
    ELSE [label |-> LabelOutput(r.doc_type, r.confidence, r.date, r.issuer, <<"why">>),
          error |-> Null]

\* the client before the first call of label_file; after a call its requests
\* and the last response stay until the next call
NoLlm == [model |-> Null, attempt |-> 0, last_error |-> Null,
          initial_result |-> NoLabel, requests |-> <<>>, response |-> NoResponse]
NoStats == [success |-> 0, failed |-> 0, escalated |-> 0, errors |-> <<>>]
NoResult == [file |-> 0, label |-> NoLabel, escalated |-> FALSE, error |-> NoFailure]
NoConfig == [max_retries |-> 3, no_escalate |-> FALSE, max_text_length |-> 50000,
             use_docling |-> FALSE]

\* the configurations tried: llm.max_retries and the --no-escalate flag
Configs == [max_retries : 0..MaxRetries, no_escalate : BOOLEAN,
            max_text_length : {50000}, use_docling : {FALSE}]

LabelingInit ==
    /\ config = NoConfig
    /\ llm = NoLlm
    /\ stats = NoStats
    /\ last_result = NoResult
NoCall == [op |-> "none", file_id |-> 0, run_id |-> 0, value |-> Null, returned |-> 0]

NoCmd == [type |-> "none", run_id |-> 0, force |-> FALSE, limit |-> 0,
          workers |-> 1, dry_run |-> FALSE]

Slots == 0..(MaxWorkers - 1)
Idle == [file |-> 0, status |-> "idle"]
NoJobs == [h \in {} |-> 0]

\* the values --limit takes (0: not given)
Limits == {0, 2}

\* how the command of a log entry ended
GracefulExits == {"ok", "nothing", "error"}

LogEntry(c, exit) == [cmd |-> c, exit |-> exit]

\* the command lines
ExtractCmd(force, limit, workers) ==
    [NoCmd EXCEPT !.type = "extract", !.force = force, !.limit = limit, !.workers = workers]
ScanCmd(dry_run) == [NoCmd EXCEPT !.type = "scan", !.dry_run = dry_run]
LabelCmd(force, limit) == [NoCmd EXCEPT !.type = "label", !.force = force, !.limit = limit]

\* the sessions tried: the commands an operator runs one after the other
Sessions ==
    {<<ExtractCmd(FALSE, 0, w)>> : w \in 1..MaxWorkers}
    \cup {<<ExtractCmd(FALSE, l, 1)>> : l \in Limits}
    \cup {<<ExtractCmd(TRUE, 0, 1)>>}
    \cup {<<ExtractCmd(FALSE, 0, 1), ExtractCmd(FALSE, 0, 1)>>,
          <<ExtractCmd(FALSE, 0, 1), ExtractCmd(TRUE, 2, 1)>>}
    \cup {<<ExtractCmd(FALSE, 0, MaxWorkers), ExtractCmd(FALSE, 2, 1)>>}
    \cup {<<ExtractCmd(FALSE, 0, 1), LabelCmd(f, l)>> : f \in BOOLEAN, l \in Limits}
    \cup {<<LabelCmd(FALSE, 0)>>}
    \cup {<<ScanCmd(d)>> : d \in BOOLEAN}
    \cup {<<ScanCmd(FALSE), ExtractCmd(FALSE, 0, 1)>>}
    \cup {<<ExtractCmd(FALSE, 0, 1), ScanCmd(FALSE)>>}

\* the command lines of the commands that have ended
Typed(lg) == [i \in 1..Len(lg) |-> [lg[i].cmd EXCEPT !.run_id = 0]]

\* c may be typed next: the operator goes on after a command that ended well
MayRun(lg, c) ==
    /\ \A i \in 1..Len(lg) : lg[i].exit \in {"ok", "nothing"}
    /\ \E s \in Sessions :
           Len(s) > Len(lg) /\ SubSeq(s, 1, Len(lg) + 1) = Append(Typed(lg), c)

(* ---------------------------------------------------------------------- *)
(* Workers and the pool                                                    *)
(* ---------------------------------------------------------------------- *)
Pending == [status |-> "pending", method |-> Null, output_path |-> NoPath, error |-> NoError]

\* the statuses extract_file_worker can hand back for a file
WorkerOutcomes == {"success", "failed", "skipped"}

\* multiprocessing.Pool: tasks are taken in submission order by the free processes
Unfinished(pl) == {h \in DOMAIN pl : pl[h].result.status = "pending"}
Running(pl, workers) ==
    {h \in Unfinished(pl) : Cardinality({g \in Unfinished(pl) : g < h}) < workers}

\* async_result.ready()
Ready(pl, h) == pl[h].result.status # "pending"

(* ---------------------------------------------------------------------- *)
(* The extraction supervisor (cli.py extract)                              *)
(* ---------------------------------------------------------------------- *)
\* the supervisor's mutable locals, passed through the loops of one sweep
Sup(q, aj, nws, ws, pl, es) ==
    [q |-> q, aj |-> aj, nws |-> nws, ws |-> ws, pl |-> pl, es |-> es]

submit_next_task_unqueued(S, workers) == S

\* submit_next_task(): pop a task, hand it to the pool, take the round-robin slot
submit_next_task(S, workers) ==
    IF S.q = <<>> THEN S
    ELSE LET fi   == Head(S.q)
             h    == S.nws
             slot == S.nws % workers
         IN  [S EXCEPT !.q   = Tail(S.q),
                       !.aj  = S.aj @@ (h :> [file_info |-> fi, elapsed |-> 0,
                                              worker_slot |-> slot]),
                       !.nws = S.nws + 1,
                       !.ws  = [S.ws EXCEPT ![slot] =
                                   [file |-> fi.id, status |-> "processing"]],
                       !.pl  = S.pl @@ (h :> [file_info |-> fi, result |-> Pending])]

RECURSIVE SubmitTimes_all(_, _, _)
SubmitTimes_all(S, workers, n) ==
    IF S.q = <<>> THEN S
    ELSE SubmitTimes_all(submit_next_task(S, workers), workers, n)

RECURSIVE SubmitTimes(_, _, _)
SubmitTimes(S, workers, n) ==
    IF n = 0 THEN S ELSE SubmitTimes(submit_next_task(S, workers), workers, n - 1)

RECURSIVE Prefill_all(_, _, _, _, _, _, _)
Prefill_all(q, it, fs, es, force, limit, workers) ==
    LET nb == iter_files_for_extraction(it, fs, es, force, limit, PageSize)
    IN  IF nb.batch = <<>> THEN [q |-> q, it |-> nb.it]
        ELSE Prefill_all(q \o nb.batch, nb.it, fs, es, force, limit, workers)

\* the pre-fill loop: pages are appended until the queue holds 3 x workers
RECURSIVE Prefill(_, _, _, _, _, _, _)
Prefill(q, it, fs, es, force, limit, workers) ==
    LET nb == iter_files_for_extraction(it, fs, es, force, limit, PageSize)
    IN  IF nb.batch = <<>> THEN [q |-> q, it |-> nb.it]
        ELSE IF Len(q \o nb.batch) >= workers * 3
             THEN [q |-> q \o nb.batch, it |-> nb.it]
             ELSE Prefill(q \o nb.batch, nb.it, fs, es, force, limit, workers)

Classify_ge(elapsed) ==
    IF elapsed >= HUNG_WORKER_TIMEOUT THEN "hung"
    ELSE IF elapsed > SLOW_WORKER_TIME THEN "processing (slow)"
    ELSE "processing"

\* the state shown for a task that is not ready, by its elapsed time
Classify(elapsed) ==
    IF elapsed > HUNG_WORKER_TIMEOUT THEN "hung"
    ELSE IF elapsed > SLOW_WORKER_TIME THEN "processing (slow)"
    ELSE "processing"

HungResult(elapsed) == [status |-> "failed", method |-> "unknown", output_path |-> NoPath,
                        error |-> [msg |-> "Worker hung after ", elapsed |-> elapsed,
                                   detail |-> Null]]

\* the handles of active_jobs in dict order (the order of submission)
RECURSIVE KeysInOrder(_)
KeysInOrder(K) ==
    IF K = {} THEN <<>>
    ELSE LET m == CHOOSE h \in K : \A g \in K : h <= g
         IN  <<m>> \o KeysInOrder(K \ {m})

\* first loop of a sweep: collect the ready results
CompletedResults(aj, pl) ==
    LET ks == SelectSeq(KeysInOrder(DOMAIN aj), LAMBDA h : Ready(pl, h))
    IN  [i \in 1..Len(ks) |->
            [h |-> ks[i], file_info |-> pl[ks[i]].file_info, result |-> pl[ks[i]].result]]

HungWorkers_none(aj, pl) == <<>>

\* first loop of a sweep: the tasks that are not ready and are classified hung
HungWorkers(aj, pl) ==
    LET ks == SelectSeq(KeysInOrder(DOMAIN aj),
                        LAMBDA h : ~Ready(pl, h) /\ Classify(aj[h].elapsed) = "hung")
    IN  [i \in 1..Len(ks) |->
            [h |-> ks[i], file_info |-> aj[ks[i]].file_info,
             result |-> HungResult(aj[ks[i]].elapsed)]]

\* first loop of a sweep: the display of the tasks that are not ready
RECURSIVE ShowElapsed(_, _, _, _)
ShowElapsed(ks, aj, pl, ws) ==
    IF ks = <<>> THEN ws
    ELSE LET h == Head(ks)
         IN  ShowElapsed(Tail(ks), aj, pl,
                 IF Ready(pl, h) THEN ws
                 ELSE [ws EXCEPT ![aj[h].worker_slot] =
                          [file |-> aj[h].file_info.id,
                           status |-> Classify(aj[h].elapsed)]])

RECURSIVE ProcessCompleted_nodel(_, _, _, _)
ProcessCompleted_nodel(cr, S, workers, run_id) ==
    IF cr = <<>> THEN S
    ELSE LET c  == Head(cr)
             S1 == IF c.h \in DOMAIN S.aj
                   THEN [S EXCEPT !.ws = [S.ws EXCEPT ![S.aj[c.h].worker_slot] =
                                             [file |-> c.file_info.id, status |-> "completed"]]]
                   ELSE S
             S2 == IF S1.q # <<>> THEN submit_next_task(S1, workers) ELSE S1
             S3 == [S2 EXCEPT !.es = record_extraction(S2.es, c.file_info.id, run_id, c.result)]
         IN  ProcessCompleted_nodel(Tail(cr), S3, workers, run_id)

\* last loop of a sweep: free the slot, submit the next task, record the result
RECURSIVE ProcessCompleted(_, _, _, _)
ProcessCompleted(cr, S, workers, run_id) ==
    IF cr = <<>> THEN S
    ELSE LET c  == Head(cr)
             S1 == IF c.h \in DOMAIN S.aj
                   THEN [S EXCEPT !.ws = [S.ws EXCEPT ![S.aj[c.h].worker_slot] =
                                             [file |-> c.file_info.id, status |-> "completed"]],
                                  !.aj = [h \in DOMAIN S.aj \ {c.h} |-> S.aj[h]],
                                  !.pl = IF Ready(S.pl, c.h)
                                         THEN [h \in DOMAIN S.pl \ {c.h} |-> S.pl[h]]
                                         ELSE S.pl]
                   ELSE S
             S2 == IF S1.q # <<>> THEN submit_next_task(S1, workers) ELSE S1
             S3 == [S2 EXCEPT !.es = record_extraction(S2.es, c.file_info.id, run_id, c.result)]
         IN  ProcessCompleted(Tail(cr), S3, workers, run_id)

(* ---------------------------------------------------------------------- *)
(* Initial state: the catalog after one completed scan of the tree         *)
(* ---------------------------------------------------------------------- *)
\* the bytes of each file when the tree was first scanned: no two files alike
OriginalBytes == [p \in Paths |-> p]
\* the bytes of a file after an edit
EditedBytes(p) == p + NumFiles

\* the text an extractor reads out of a readable file: as many characters as
\* the number that names the bytes, so that texts of every length occur
ExtractedText(bytes) == [i \in 1..bytes |-> i]

\* len(str(n)) of a max_length >= 0
RECURSIVE Digits(_)
Digits(n) == IF n < 10 THEN 1 ELSE 1 + Digits(n \div 10)

\* len("\n\n[... text truncated to ") and len(" characters ...]\n\n")
MarkerPrefix == 25
MarkerSuffix == 18
\* the marker put between head and tail, one "." per character
Marker(max_length) ==
    [i \in 1..(MarkerPrefix + Digits(max_length) + MarkerSuffix) |-> "."]

\* ExtractionPipeline._truncate_text
truncate_text(text, max_length) ==
    IF Len(text) <= max_length THEN text
    ELSE LET half == max_length \div 2
             head == SubSeq(text, 1, half)
             \* text[-half:] is the whole text when half = 0
             tail == IF half = 0 THEN text
                     ELSE SubSeq(text, Len(text) - half + 1, Len(text))
         IN  head \o Marker(max_length) \o tail

\* no sidecar in extracted_text_dir
NoSidecars == [d \in {} |-> <<>>]
\* write_compressed_sidecar at _get_sidecar_path(sha256)
write_compressed_sidecar(sc, sha256, text) ==
    [d \in DOMAIN sc \cup {sha256} |-> IF d = sha256 THEN text ELSE sc[d]]

(* ---------------------------------------------------------------------- *)
(* ExtractionPipeline.extract_file and the extractor chain                  *)
(* ---------------------------------------------------------------------- *)
\* the name of each extractor
Extractors == {"docling", "pypdf", "vision-ocr", "text"}

\* ExtractionPipeline._init_extractors on the global registry: one more round
\* of registrations for every pipeline constructed in the process
RECURSIVE Registry(_, _)
Registry(use_docling, pipelines) ==
    IF pipelines = 0 THEN <<>>
    ELSE Registry(use_docling, pipelines - 1)
         \o (IF use_docling THEN <<"docling">> ELSE <<>>)
         \o <<"pypdf", "vision-ocr", "text">>

\* BaseExtractor.can_extract of each extractor, every optional package installed
can_extract(name, suffix) ==
    IF name = "docling" THEN Lower(suffix) \in {".pdf", ".docx"}
    ELSE IF name = "pypdf" THEN Lower(suffix) = ".pdf"
    ELSE IF name = "vision-ocr" THEN Lower(suffix) = ".pdf"
    ELSE Lower(suffix) \in {".txt", ".md"}

\* ExtractorRegistry.get_extractors_for_file
get_extractors_for_file(registry, suffix) ==
    SelectSeq(registry, LAMBDA name : can_extract(name, suffix))

\* BaseExtractor.extract of each extractor on a file of a kind: success, or
\* failed with the extractor's error (a timeout of docling is one of them)
extract(name, kind) ==
    IF kind \in {"readable", "office"}
    THEN [status |-> "success", method |-> name, error |-> Null]
    ELSE IF kind = "scanned"
    THEN IF name = "docling"
         THEN [status |-> "failed", method |-> name,
               error |-> "Docling timed out after 90s (file may be too complex or Docling may have hung)"]
         ELSE IF name = "pypdf"
         THEN [status |-> "failed", method |-> name,
               error |-> "No text extracted (possibly scanned PDF without OCR)"]
         ELSE [status |-> "success", method |-> name, error |-> Null]
    ELSE [status |-> "failed", method |-> name,
          error |-> IF name = "docling" THEN "Docling extraction failed: "
                    ELSE IF name = "pypdf" THEN "PyPDF extraction failed: "
                    ELSE IF name = "vision-ocr" THEN "Could not open PDF"
                    ELSE "Failed to read file: "]

should_skip_file_cased(suffix) == suffix \in skip_extensions

\* ExtractionPipeline._should_skip_file
should_skip_file(suffix) == Lower(suffix) \in skip_extensions

Chain_nofallback(extractors, i, kind, tried, last_error) ==
    LET result == extract(extractors[i], kind)
    IN  IF result.status = "success"
        THEN [tried |-> <<extractors[i]>>, status |-> "success",
              method |-> result.method, error |-> NoError]
        ELSE [tried |-> <<extractors[i]>>, status |-> "failed", method |-> "all",
              error |-> [msg |-> "All extractors failed. Last error: ", elapsed |-> 0,
                         detail |-> result.error]]

\* the loop of extract_file over the matching extractors from the i-th on:
\* the extractors invoked, and the result
RECURSIVE Chain(_, _, _, _, _)
Chain(extractors, i, kind, tried, last_error) ==
    IF i > Len(extractors)
    THEN [tried |-> tried, status |-> "failed", method |-> "all",
          error |-> [msg |-> "All extractors failed. Last error: ", elapsed |-> 0,
                     detail |-> last_error]]
    ELSE LET result == extract(extractors[i], kind)
         IN  IF result.status = "success"
             THEN [tried |-> Append(tried, extractors[i]), status |-> "success",
                   method |-> result.method, error |-> NoError]
             ELSE Chain(extractors, i + 1, kind, Append(tried, extractors[i]),
                        result.error)

\* ExtractionPipeline.extract_file on the file at a path of a kind holding
\* some bytes, in a process that has constructed a number of pipelines: the
\* result, the extractors invoked in order, whether a sidecar was written at
\* the file's digest, and its text
extract_file(cfg, pipelines, path, sha256, kind, bytes) ==
    IF should_skip_file(FileSuffix(path, kind))
    THEN [status |-> "skipped", method |-> "none", output_path |-> NoPath,
          error |-> [msg |-> "Extension  in skip list", elapsed |-> 0,
                     detail |-> FileSuffix(path, kind)],
          tried |-> <<>>, written |-> FALSE, text |-> <<>>]
    ELSE LET extractors == get_extractors_for_file(
                               Registry(cfg.use_docling, pipelines),
                               FileSuffix(path, kind))
         IN  IF extractors = <<>>
             THEN [status |-> "skipped", method |-> "none", output_path |-> NoPath,
                   error |-> [msg |-> "No extractor available for this file type",
                              elapsed |-> 0, detail |-> Null],
                   tried |-> <<>>, written |-> FALSE, text |-> <<>>]
             ELSE LET c == Chain(extractors, 1, kind, <<>>, Null)
                  IN  IF c.status = "success"
                      THEN [status |-> "success", method |-> c.method,
                            output_path |-> sha256, error |-> NoError,
                            tried |-> c.tried, written |-> TRUE,
                            text |-> truncate_text(ExtractedText(bytes),
                                                   cfg.max_text_length)]
                      ELSE [status |-> "failed", method |-> "all",
                            output_path |-> NoPath, error |-> c.error,
                            tried |-> c.tried, written |-> FALSE, text |-> <<>>]

\* the result dict built by extract_file_worker from extract_file's result
WorkerResult(result) ==
    [status |-> result.status, method |-> result.method,
     output_path |-> result.output_path, error |-> result.error]

\* the sidecars after extract_file
SidecarsAfter(sc, sha256, result) ==
    IF result.written THEN write_compressed_sidecar(sc, sha256, result.text) ELSE sc

RECURSIVE ScanTree(_, _, _)
\* second pass of FileScanner.scan: upsert the files of the tree from path p on
ScanTree(fs, p, run_id) ==
    IF p > NumFiles THEN fs
    ELSE ScanTree(insert_file(fs, p, Digest(content[p]), run_id), p + 1, run_id)

(* ---------------------------------------------------------------------- *)
(* FileScanner.iter_files on a directory tree                              *)
(* ---------------------------------------------------------------------- *)
\* a directory tree: the root directory 0 and the entries 1..MaxNodes, each
\* with the directory it is in, what it is, and where it points if a symlink
Missing == MaxNodes + 1
NodeKinds == {"dir", "file", "symlink"}

\* the entries an n-th entry can be, given the entries before it: in the root
\* or in an earlier directory; a symlink points to the root, to an earlier
\* entry, to itself (a loop) or to nothing
NodeChoices(t, n) ==
    LET parents == {0} \cup {d \in 1..Len(t) : t[d].kind = "dir"}
    IN  {[parent |-> d, kind |-> k, target |-> Missing] :
             d \in parents, k \in {"dir", "file"}}
        \cup {[parent |-> d, kind |-> "symlink", target |-> g] :
                  d \in parents, g \in (0..n) \cup {Missing}}

\* the directory trees of n entries
RECURSIVE FsTrees(_)
FsTrees(n) ==
    IF n = 0 THEN {<<>>}
    ELSE UNION {{Append(t, r) : r \in NodeChoices(t, n)} : t \in FsTrees(n - 1)}

\* path.iterdir(): the entries of a directory
RECURSIVE iterdir(_, _, _)
iterdir(t, d, n) ==
    IF n > Len(t) THEN <<>>
    ELSE (IF t[n].parent = d THEN <<n>> ELSE <<>>) \o iterdir(t, d, n + 1)

\* what a path resolves to when symlinks are followed; a loop resolves to nothing
RECURSIVE Resolve(_, _, _)
Resolve(t, n, hops) ==
    IF n = Missing \/ n = 0 THEN n
    ELSE IF t[n].kind # "symlink" THEN n
    ELSE IF hops = 0 THEN Missing
    ELSE Resolve(t, t[n].target, hops - 1)

\* Path.is_dir(), Path.is_file() (both follow symlinks) and Path.is_symlink()
is_dir(t, n) ==
    LET r == Resolve(t, n, MaxNodes) IN r = 0 \/ (r # Missing /\ t[r].kind = "dir")
is_file(t, n) ==
    LET r == Resolve(t, n, MaxNodes) IN r # 0 /\ r # Missing /\ t[r].kind = "file"
is_symlink(t, n) == n # 0 /\ t[n].kind = "symlink"

MayFollow_always(follow_symlinks, symlink) == TRUE

\* self.config.scan.follow_symlinks or not item.is_symlink()
MayFollow(follow_symlinks, symlink) == follow_symlinks \/ ~symlink

\* a call of _walk: the directory iterated, whether the path to it goes
\* through a symlink, and the entries still to come
Frame(t, d, through) == [dir |-> d, through |-> through, todo |-> iterdir(t, d, 1)]

\* no walk
NoWalk == [tree |-> <<>>, follow_symlinks |-> FALSE, status |-> "none",
           stack |-> <<>>, yielded |-> <<>>, steps |-> 0]

\* the deepest recursion of _walk before the interpreter or the path length
\* ends it with an error
MaxDepth == MaxNodes + 2

SupervisorInit ==
    /\ batch_iterator = NewIterator
    /\ task_queue = <<>>
    /\ active_jobs = NoJobs
    /\ next_worker_slot = 0
    /\ worker_status = [s \in Slots |-> Idle]
    /\ pool = NoJobs

Init ==
    /\ content = OriginalBytes
    /\ runs = complete_run(create_run(<<>>, "scan"), 1, Null)
    /\ files = ScanTree(<<>>, 1, 1)
    /\ extractions = <<>>
    /\ labels = <<>>
    /\ pc = "idle"
    /\ cmd = NoCmd
    /\ log = <<>>
    /\ SupervisorInit
    /\ label_files = <<>>
    /\ disk \in Trees
    /\ calls = 0
    /\ last_call = NoCall
    /\ LabelingInit
    /\ schema_version = {SCHEMA_VERSION}
    /\ sidecars = NoSidecars
    /\ walk = NoWalk

\* the command returns to the shell
Exit(c, exit) ==
    /\ pc' = "idle"
    /\ cmd' = NoCmd
    /\ log' = Append(log, LogEntry(c, exit))

(* ---------------------------------------------------------------------- *)
(* extract                                                                 *)
(* ---------------------------------------------------------------------- *)
\* cli.py 303-337: create the run, count the work, leave at once if there is none
ExtractNothingToDo(force, limit, workers) ==
    LET runs1  == create_run(runs, "extract")
        run_id == Len(runs1)
        count  == count_files_for_extraction(files, extractions, force)
        total_files == IF limit # 0 THEN Min(count, limit) ELSE count
        c == [ExtractCmd(force, limit, workers) EXCEPT !.run_id = run_id]
    IN  /\ pc = "idle" /\ MayRun(log, ExtractCmd(force, limit, workers))
        /\ total_files = 0
        /\ runs' = complete_run(runs1, run_id, Null)
        /\ Exit(c, "nothing")
        /\ UNCHANGED <<files, extractions, labels, supervisor, label_files, disk, walk, api,
                   labeling, schema_version, content, sidecars>>

\* cli.py 303-593: create the run, open the pool, pre-fill the queue, start the workers
StartExtract(force, limit, workers) ==
    LET runs1  == create_run(runs, "extract")
        run_id == Len(runs1)
        count  == count_files_for_extraction(files, extractions, force)
        total_files == IF limit # 0 THEN Min(count, limit) ELSE count
        pf == Prefill(<<>>, NewIterator, files, extractions, force, limit, workers)
        S0 == Sup(pf.q, NoJobs, 0, [s \in Slots |-> Idle], NoJobs, extractions)
        S1 == SubmitTimes(S0, workers, Min(workers, Len(pf.q)))
    IN  /\ pc = "idle" /\ MayRun(log, ExtractCmd(force, limit, workers))
        /\ total_files # 0
        /\ runs' = runs1
        /\ pc' = "extract"
        /\ cmd' = [ExtractCmd(force, limit, workers) EXCEPT !.run_id = run_id]
        /\ batch_iterator' = pf.it
        /\ task_queue' = S1.q
        /\ active_jobs' = S1.aj
        /\ next_worker_slot' = S1.nws
        /\ worker_status' = S1.ws
        /\ pool' = S1.pl
        /\ UNCHANGED <<files, extractions, labels, log, label_files, disk, walk, api,
                   labeling, schema_version, content, sidecars>>

\* a call of the library: what was asked and what came back
Call(op, file_id, run_id, value, returned) ==
    [op |-> op, file_id |-> file_id, run_id |-> run_id, value |-> value,
     returned |-> returned]

\* _ensure_schema: SELECT version FROM schema_version ORDER BY version DESC LIMIT 1
current_version(sv) ==
    IF sv = {} THEN 0 ELSE CHOOSE v \in sv : \A w \in sv : w <= v

\* _ensure_schema: create the tables, read the newest recorded version,
\* migrate and record SCHEMA_VERSION if it is older
ensure_schema(sv) ==
    IF current_version(sv) < SCHEMA_VERSION THEN sv \cup {SCHEMA_VERSION} ELSE sv

\* a pool process finishes the task it is running: extract_file_worker has
\* opened the catalog (Database(config.index_db)), constructed a pipeline and
\* returned extract_file's result for the file (it catches every exception,
\* so get() returns it); last_call keeps the worker's opening of the catalog
WorkerFinish(h, o) ==
    /\ pc = "extract"
    /\ h \in Running(pool, cmd.workers)
    /\ LET fi     == pool[h].file_info
           result == extract_file(config, 1, fi.path, fi.sha256, disk[fi.path],
                                  content[fi.path])
       IN  /\ o = result.status
           /\ pool' = IF h \in DOMAIN active_jobs
                      THEN [pool EXCEPT ![h].result = WorkerResult(result)]
                      ELSE [g \in DOMAIN pool \ {h} |-> pool[g]]
           \* pipeline.py 102-117: on success the worker has written the sidecar
           /\ sidecars' = SidecarsAfter(sidecars, fi.sha256, result)
           /\ schema_version' = ensure_schema(schema_version)
           /\ last_call' = Call("open", 0, 0, "worker",
                                current_version(schema_version))
    /\ UNCHANGED <<catalog, pc, cmd, log, batch_iterator, task_queue, active_jobs,
                   next_worker_slot, worker_status, label_files, disk, walk, calls,
                   labeling, content>>

\* cli.py 600-746: one iteration of `while active_jobs or task_queue`,
\* d after the clock reading of the previous one
Sweep(d) ==
    LET \* current_time = time.time()
        aj0 == [h \in DOMAIN active_jobs |->
                   [active_jobs[h] EXCEPT !.elapsed = Min(ElapsedCap, @ + d)]]
        \* load one more page if the queue is below 2 x workers
        nb  == IF Len(task_queue) < cmd.workers * 2
               THEN iter_files_for_extraction(batch_iterator, files, extractions,
                                              cmd.force, cmd.limit, PageSize)
               ELSE [batch |-> <<>>, it |-> batch_iterator]
        q0  == task_queue \o nb.batch
        ws0 == ShowElapsed(KeysInOrder(DOMAIN aj0), aj0, pool, worker_status)
        cr  == CompletedResults(aj0, pool) \o HungWorkers(aj0, pool)
        S   == ProcessCompleted(cr, Sup(q0, aj0, next_worker_slot, ws0, pool, extractions),
                                cmd.workers, cmd.run_id)
    IN  /\ pc = "extract"
        /\ active_jobs # NoJobs \/ task_queue # <<>>
        /\ batch_iterator' = nb.it
        /\ task_queue' = S.q
        /\ active_jobs' = S.aj
        /\ next_worker_slot' = S.nws
        /\ worker_status' = S.ws
        /\ pool' = S.pl
        /\ extractions' = S.es
        /\ UNCHANGED <<runs, files, labels, pc, cmd, log, label_files, disk, walk, api,
                   labeling, schema_version, content, sidecars>>

\* leaving the pool and the display: the locals of the run are gone
CloseSupervisor ==
    /\ batch_iterator' = NewIterator
    /\ task_queue' = <<>>
    /\ active_jobs' = NoJobs
    /\ next_worker_slot' = 0
    /\ worker_status' = [s \in Slots |-> Idle]
    /\ pool' = NoJobs

\* cli.py 748-895: the loop is over; summary; complete_run(run_id)
FinishExtract ==
    /\ pc = "extract"
    /\ active_jobs = NoJobs /\ task_queue = <<>>
    /\ runs' = complete_run(runs, cmd.run_id, Null)
    /\ Exit(cmd, "ok")
    /\ CloseSupervisor
    /\ UNCHANGED <<files, extractions, labels, label_files, disk, walk, api,
                   labeling, schema_version, content, sidecars>>

\* cli.py 897-901: an exception inside the try block (a catalog error, say)
ExtractError ==
    /\ pc = "extract"
    /\ runs' = complete_run(runs, cmd.run_id, "error")
    /\ Exit(cmd, "error")
    /\ CloseSupervisor
    /\ UNCHANGED <<files, extractions, labels, label_files, disk, walk, api,
                   labeling, schema_version, content, sidecars>>

\* the cancellation signal: KeyboardInterrupt is not an Exception, so the
\* handler of cli.py 897 does not run; the pool is terminated by its `with`
CancelExtract ==
    /\ pc = "extract"
    /\ Exit(cmd, "cancelled")
    /\ CloseSupervisor
    /\ UNCHANGED <<catalog, label_files, disk, walk, api,
                   labeling, schema_version, content, sidecars>>

(* ---------------------------------------------------------------------- *)
(* scan                                                                    *)
(* ---------------------------------------------------------------------- *)
\* scanner.py 126-127: create_run, also on a dry run
ScanBegin(dry_run) ==
    /\ pc = "idle" /\ MayRun(log, ScanCmd(dry_run))
    /\ runs' = create_run(runs, "scan")
    /\ pc' = "scan"
    /\ cmd' = [ScanCmd(dry_run) EXCEPT !.run_id = Len(runs) + 1]
    /\ UNCHANGED <<files, extractions, labels, log, supervisor, label_files, disk, walk, api,
                   labeling, schema_version, content, sidecars>>

\* scanner.py 132-171: walk the tree, upsert and complete the run unless dry
ScanWalk ==
    /\ pc = "scan"
    /\ files' = IF cmd.dry_run THEN files ELSE ScanTree(files, 1, cmd.run_id)
    /\ runs' = IF cmd.dry_run THEN runs ELSE complete_run(runs, cmd.run_id, Null)
    /\ Exit(cmd, "ok")
    /\ UNCHANGED <<extractions, labels, supervisor, label_files, disk, walk, api,
                   labeling, schema_version, content, sidecars>>

\* scanner.py 173-177 and cli.py 128-130: the walk raises (the root is gone, say)
ScanError ==
    /\ pc = "scan"
    /\ runs' = IF cmd.dry_run THEN runs ELSE complete_run(runs, cmd.run_id, "error")
    /\ Exit(cmd, "error")
    /\ UNCHANGED <<files, extractions, labels, supervisor, label_files, disk, walk, api,
                   labeling, schema_version, content, sidecars>>

\* somebody edits a file of the source tree
ModifyFile(p) ==
    /\ content[p] = OriginalBytes[p]
    /\ content' = [content EXCEPT ![p] = EditedBytes(p)]
    /\ UNCHANGED <<catalog, pc, cmd, log, supervisor, label_files, disk, walk, api,
                   labeling, schema_version, sidecars>>

\* lucien scan on a tree that is being edited
NextScan ==
    \/ \E dry_run \in BOOLEAN : ScanBegin(dry_run)
    \/ ScanWalk
    \/ ScanError
    \/ \E p \in Paths : ModifyFile(p)

InitScan == Init /\ disk = [p \in Paths |-> "readable"]

SpecScan == InitScan /\ [][NextScan]_vars

(* ---------------------------------------------------------------------- *)
(* the walk of the scanner                                                 *)
(* ---------------------------------------------------------------------- *)
\* everything but the walk
others == <<catalog, pc, cmd, log, supervisor, label_files, disk, api, labeling,
            schema_version, content, sidecars>>

\* scanner.py 86-100: the loop of _walk takes the next entry of the directory
WalkItem ==
    LET f     == walk.stack[Len(walk.stack)]
        item  == Head(f.todo)
        t     == walk.tree
        rest  == [walk.stack EXCEPT ![Len(walk.stack)].todo = Tail(f.todo)]
        link  == is_symlink(t, item)
    IN  /\ pc = "walk" /\ walk.status = "walking"
        /\ walk.stack # <<>> /\ f.todo # <<>>
        /\ walk' =
             IF is_dir(t, item)
             THEN IF MayFollow(walk.follow_symlinks, link)
                  THEN IF Len(walk.stack) >= MaxDepth
                       THEN [walk EXCEPT !.status = "error", !.steps = @ + 1]
                       ELSE [walk EXCEPT
                               !.stack = Append(rest, Frame(t, Resolve(t, item, MaxNodes),
                                                            f.through \/ link)),
                               !.steps = @ + 1]
                  ELSE [walk EXCEPT !.stack = rest, !.steps = @ + 1]
             ELSE IF is_file(t, item) /\ MayFollow(walk.follow_symlinks, link)
             THEN [walk EXCEPT !.stack = rest, !.steps = @ + 1,
                               !.yielded = Append(@, [item |-> item, dir |-> f.dir,
                                                      through |-> f.through,
                                                      symlink |-> link])]
             ELSE [walk EXCEPT !.stack = rest, !.steps = @ + 1]
        /\ UNCHANGED others

\* the loop of a _walk is over: back to the caller, or the generator is exhausted
WalkReturn ==
    /\ pc = "walk" /\ walk.status = "walking"
    /\ walk.stack # <<>> /\ walk.stack[Len(walk.stack)].todo = <<>>
    /\ walk' = [walk EXCEPT !.stack = SubSeq(@, 1, Len(@) - 1),
                            !.steps = @ + 1,
                            !.status = IF Len(walk.stack) = 1 THEN "done" ELSE @]
    /\ UNCHANGED others

NextWalk == WalkItem \/ WalkReturn

\* iter_files(root) is called on a tree, with scan.follow_symlinks set or not
InitWalk ==
    /\ content = OriginalBytes
    /\ runs = <<>>
    /\ files = <<>>
    /\ extractions = <<>>
    /\ labels = <<>>
    /\ pc = "walk"
    /\ cmd = NoCmd
    /\ log = <<>>
    /\ SupervisorInit
    /\ label_files = <<>>
    /\ disk = [p \in Paths |-> "readable"]
    /\ calls = 0
    /\ last_call = NoCall
    /\ LabelingInit
    /\ schema_version = {SCHEMA_VERSION}
    /\ sidecars = NoSidecars
    /\ \E t \in FsTrees(MaxNodes), follow_symlinks \in BOOLEAN :
           walk = [tree |-> t, follow_symlinks |-> follow_symlinks,
                   status |-> "walking", stack |-> <<Frame(t, 0, FALSE)>>,
                   yielded |-> <<>>, steps |-> 0]

SpecWalk == InitWalk /\ [][NextWalk]_vars

(* ---------------------------------------------------------------------- *)
(* Planner.should_needs_review                                             *)
(* ---------------------------------------------------------------------- *)
\* the confidences of the labels tried, in hundredths
PlannerConfidences == {0, 1, 49, 50, 100}

\* planner.py 49-63: `label.confidence and label.confidence < 0.5` is false
\* for a confidence of 0
should_needs_review(label) ==
    IF label.confidence # 0 /\ label.confidence < 50 THEN TRUE
    ELSE IF label.doc_type \in {"other", "uncategorized"} THEN TRUE
    ELSE FALSE

\* a library with nothing in it, asked about a label
InitPlanner ==
    /\ pc = "planner"
    /\ content = OriginalBytes
    /\ runs = <<>>
    /\ files = <<>>
    /\ extractions = <<>>
    /\ labels = <<>>
    /\ cmd = NoCmd
    /\ log = <<>>
    /\ SupervisorInit
    /\ label_files = <<>>
    /\ disk = [p \in Paths |-> "readable"]
    /\ calls = 0
    /\ last_call = NoCall
    /\ LabelingInit
    /\ schema_version = {SCHEMA_VERSION}
    /\ sidecars = NoSidecars
    /\ walk = NoWalk

\* a caller asks the planner about a label
CallShouldNeedsReview(confidence, doc_type) ==
    LET label == LabelOutput(doc_type, confidence, Null, Null, <<"why">>)
    IN  /\ pc = "planner"
        /\ last_call' = Call("should_needs_review", 0, 0, label,
                             should_needs_review(label))
        /\ UNCHANGED <<catalog, pc, cmd, log, supervisor, label_files, disk, walk, calls,
                       labeling, schema_version, content, sidecars>>

NextPlanner ==
    \E confidence \in PlannerConfidences, doc_type \in doc_types :
        CallShouldNeedsReview(confidence, doc_type)

SpecPlanner == InitPlanner /\ [][NextPlanner]_vars

(* ---------------------------------------------------------------------- *)
(* llm/prompts.py: the prompts and the prompt version                      *)
(* ---------------------------------------------------------------------- *)
\* SYSTEM_PROMPT as it is, and after an edit of its text
SystemPrompts == {"SYSTEM_PROMPT", "SYSTEM_PROMPT (edited)"}

\* the LabelingContext of a file: its name, folders and text, and the
\* configured vocabularies
Contexts ==
    [filename : {"example.pdf", "w2.pdf"},
     parent_folders : {<<"folder">>, <<"taxes", "2024">>},
     extracted_text : {"", "text"},
     available_doc_types : {<<"type">>, <<"w2", "other">>},
     available_tags : {<<"tag">>, <<"taxes">>},
     taxonomy : {<<"01 Category">>, <<"03 Financial">>},
     family_members : {<<"Member">>, <<>>}]

\* the context get_prompt_version builds the template from
ExampleContext ==
    [filename |-> "example.pdf", parent_folders |-> <<"folder">>,
     extracted_text |-> "", available_doc_types |-> <<"type">>,
     available_tags |-> <<"tag">>, taxonomy |-> <<"01 Category">>,
     family_members |-> <<"Member">>]

\* get_labeling_prompt: the system prompt, and the user prompt with the
\* fields of the context substituted into the template
get_labeling_prompt(system_prompt, context) ==
    <<system_prompt,
      <<"Analyze this document", context.filename, context.parent_folders,
        IF context.extracted_text = "" THEN "[No text extracted]"
        ELSE context.extracted_text,
        context.available_doc_types, context.taxonomy,
        IF context.family_members = <<>> THEN <<"None configured">>
        ELSE context.family_members,
        context.available_tags, "OUTPUT FORMAT">> >>

\* the length of a SHA256 hex digest and of the prefix kept
HexDigestLength == 64
PromptHashLength == 16

\* hashlib.sha256(bytes).hexdigest(): 64 digits; SHA256 is taken as free of
\* collisions, also in its first digits, so the first digit names the bytes
hexdigest(bytes) == [i \in 1..HexDigestLength |-> IF i = 1 THEN bytes ELSE "0"]

compute_prompt_hash_of_user(system_prompt, user_prompt_template) ==
    SubSeq(hexdigest(<<"", "\n\n", user_prompt_template>>), 1, PromptHashLength)

\* compute_prompt_hash
compute_prompt_hash(system_prompt, user_prompt_template) ==
    SubSeq(hexdigest(<<system_prompt, "\n\n", user_prompt_template>>),
           1, PromptHashLength)

\* get_prompt_version
get_prompt_version(system_prompt) ==
    LET template == get_labeling_prompt(system_prompt, ExampleContext)
    IN  compute_prompt_hash(template[1], template[2])

\* a library with nothing in it, about to label files
InitPrompts ==
    /\ pc = "prompts"
    /\ content = OriginalBytes
    /\ runs = <<>>
    /\ files = <<>>
    /\ extractions = <<>>
    /\ labels = <<>>
    /\ cmd = NoCmd
    /\ log = <<>>
    /\ SupervisorInit
    /\ label_files = <<>>
    /\ disk = [p \in Paths |-> "readable"]
    /\ calls = 0
    /\ last_call = NoCall
    /\ LabelingInit
    /\ schema_version = {SCHEMA_VERSION}
    /\ sidecars = NoSidecars
    /\ walk = NoWalk

\* LabelingPipeline labels a file: the prompts sent for the file's context,
\* and the prompt_hash stored on the label row (self.prompt_version)
CallLabelDocument(system_prompt, context) ==
    /\ pc = "prompts"
    /\ last_call' = Call("label_document", 0, 0,
                         [system_prompt |-> system_prompt,
                          prompts |-> get_labeling_prompt(system_prompt, context)],
                         get_prompt_version(system_prompt))
    /\ UNCHANGED <<catalog, pc, cmd, log, supervisor, label_files, disk, walk, calls,
                   labeling, schema_version, content, sidecars>>

NextPrompts ==
    \E system_prompt \in SystemPrompts, context \in Contexts :
        CallLabelDocument(system_prompt, context)

SpecPrompts == InitPrompts /\ [][NextPrompts]_vars

(* ---------------------------------------------------------------------- *)
(* label                                                                   *)
(* ---------------------------------------------------------------------- *)
\* what label_file can get from the LLM client for a file
LabelOutcomes == {"labeled", "escalated", "error"}

\* cli.py 968-1001: no LM Studio, or nothing to label: exit before a run exists
LabelNoRun(force, limit, connected) ==
    LET c == LabelCmd(force, limit)
        count == count_files_for_labeling(files, extractions, labels, force)
        total_files == IF limit # 0 THEN Min(count, limit) ELSE count
    IN  /\ pc = "idle" /\ MayRun(log, c)
        /\ ~connected \/ total_files = 0
        /\ Exit(c, IF connected THEN "nothing" ELSE "error")
        /\ UNCHANGED <<catalog, supervisor, label_files, disk, walk, api,
                   labeling, schema_version, content, sidecars>>

\* cli.py 1006-1009: create the run and read the work queue once
LabelBegin(force, limit) ==
    LET count == count_files_for_labeling(files, extractions, labels, force)
        total_files == IF limit # 0 THEN Min(count, limit) ELSE count
    IN  /\ pc = "idle" /\ MayRun(log, LabelCmd(force, limit))
        /\ total_files # 0
        /\ runs' = create_run(runs, "label")
        /\ pc' = "label"
        /\ cmd' = [LabelCmd(force, limit) EXCEPT !.run_id = Len(runs) + 1]
        /\ label_files' = get_files_for_labeling(files, extractions, labels, force, limit)
        /\ UNCHANGED <<files, extractions, labels, log, supervisor, disk, walk, api,
                   labeling, schema_version, content, sidecars>>

\* cli.py 1133-1164 and llm/pipeline.py 87-125: label_file on the next file
LabelFile(o) ==
    /\ pc = "label"
    /\ label_files # <<>>
    /\ labels' = IF o = "error" THEN labels
                 ELSE record_label(labels, Head(label_files).id, cmd.run_id,
                                   LabelOutput(IF o = "escalated" THEN "financial"
                                               ELSE "receipt",
                                               90, "2024-01-15", "Acme", <<"why">>),
                                   IF o = "escalated" THEN "escalation_model"
                                   ELSE "default_model")
    /\ label_files' = Tail(label_files)
    /\ UNCHANGED <<runs, files, extractions, pc, cmd, log, supervisor, disk, walk, api,
                   labeling, schema_version, content, sidecars>>

\* cli.py 1166-1167: the loop is over; complete_run(run_id)
LabelEnd ==
    /\ pc = "label"
    /\ label_files = <<>>
    /\ runs' = complete_run(runs, cmd.run_id, Null)
    /\ Exit(cmd, "ok")
    /\ label_files' = <<>>
    /\ UNCHANGED <<files, extractions, labels, supervisor, disk, walk, api,
                   labeling, schema_version, content, sidecars>>

\* cli.py 1207-1213: an exception inside the try block
LabelError ==
    /\ pc = "label"
    /\ runs' = complete_run(runs, cmd.run_id, "error")
    /\ Exit(cmd, "error")
    /\ label_files' = <<>>
    /\ UNCHANGED <<files, extractions, labels, supervisor, disk, walk, api,
                   labeling, schema_version, content, sidecars>>

(* ---------------------------------------------------------------------- *)
(* The engine: CLI commands run one after the other                        *)
(* ---------------------------------------------------------------------- *)
Next ==
    \/ \E force \in BOOLEAN, limit \in Limits, w \in 1..MaxWorkers :
           ExtractNothingToDo(force, limit, w)
    \/ \E force \in BOOLEAN, limit \in Limits, w \in 1..MaxWorkers :
           StartExtract(force, limit, w)
    \/ \E h \in DOMAIN pool, o \in WorkerOutcomes : WorkerFinish(h, o)
    \/ \E d \in Deltas : Sweep(d)
    \/ FinishExtract
    \/ ExtractError
    \/ CancelExtract
    \/ \E dry_run \in BOOLEAN : ScanBegin(dry_run)
    \/ ScanWalk
    \/ ScanError
    \/ \E force \in BOOLEAN, limit \in Limits, connected \in BOOLEAN :
           LabelNoRun(force, limit, connected)
    \/ \E force \in BOOLEAN, limit \in Limits : LabelBegin(force, limit)
    \/ \E o \in LabelOutcomes : LabelFile(o)
    \/ LabelEnd
    \/ LabelError

Spec == Init /\ [][Next]_vars

(* ---------------------------------------------------------------------- *)
(* The supervisor under a fair scheduler: the clock advances, the loop     *)
(* keeps running, nothing raises and nobody interrupts                     *)
(* ---------------------------------------------------------------------- *)
NextLive ==
    \/ \E force \in BOOLEAN, limit \in Limits, w \in 1..MaxWorkers :
           ExtractNothingToDo(force, limit, w)
    \/ \E force \in BOOLEAN, limit \in Limits, w \in 1..MaxWorkers :
           StartExtract(force, limit, w)
    \/ \E h \in DOMAIN pool, o \in WorkerOutcomes : WorkerFinish(h, o)
    \/ \E d \in Deltas : Sweep(d)
    \/ FinishExtract

\* an iteration of the loop that starts after the clock has moved on
SweepLate == \E d \in Deltas \ {0} : Sweep(d)

\* when such an iteration is possible and changes the state: a result is
\* there to fetch, a task is there to drop, or an elapsed time can still grow
SweepEnabled ==
    /\ pc = "extract"
    /\ \/ \E h \in DOMAIN active_jobs :
              Ready(pool, h) \/ active_jobs[h].elapsed < ElapsedCap
       \/ HungWorkers(active_jobs, pool) # <<>>

\* the loop is not suspended and the clock does not stand still: weak fairness
\* of SweepLate (its enabling condition written out) and of FinishExtract.
\* A worker process owes nothing: WorkerFinish has no fairness
SpecLive ==
    /\ Init /\ [][NextLive]_vars
    /\ ([]<>~SweepEnabled \/ []<><<SweepLate>>_vars)
    /\ WF_vars(FinishExtract)

(* ---------------------------------------------------------------------- *)
(* One extract run on a larger tree: more files than pre-fill loads, with   *)
(* pages smaller than the worker count                                      *)
(* ---------------------------------------------------------------------- *)
\* the paths of the larger tree
LargePaths == 1..LargeTree

\* the catalog after one completed scan of the larger tree (the rows that
\* insert_file appends path by path); its files are all readable, or all of
\* them files no extractor can read
InitSupply ==
    /\ content = [p \in LargePaths |-> p]
    /\ runs = complete_run(create_run(<<>>, "scan"), 1, Null)
    /\ files = [p \in LargePaths |->
                   [id |-> p, path |-> p, sha256 |-> Digest(p), scan_run_id |-> 1]]
    /\ extractions = <<>>
    /\ labels = <<>>
    /\ pc = "idle"
    /\ cmd = NoCmd
    /\ log = <<>>
    /\ SupervisorInit
    /\ label_files = <<>>
    /\ disk \in {[p \in LargePaths |-> "readable"], [p \in LargePaths |-> "corrupt"]}
    /\ calls = 0
    /\ last_call = NoCall
    /\ LabelingInit
    /\ schema_version = {SCHEMA_VERSION}
    /\ sidecars = NoSidecars
    /\ walk = NoWalk

\* lucien extract --workers w, once, with every task done long before the
\* hang threshold: the clock readings of the sweeps are next to each other
NextSupply ==
    \/ \E w \in 1..MaxWorkers : log = <<>> /\ StartExtract(FALSE, 0, w)
    \/ \E h \in DOMAIN pool, o \in WorkerOutcomes : WorkerFinish(h, o)
    \/ Sweep(0)
    \/ FinishExtract

SpecSupply == InitSupply /\ [][NextSupply]_vars

(* ---------------------------------------------------------------------- *)
(* Extract and scan on a tree that is edited between the commands           *)
(* ---------------------------------------------------------------------- *)
\* lucien extract --workers 1 and lucien scan, one after the other in either
\* order; files are edited while no command runs
NextRescan ==
    \/ StartExtract(FALSE, 0, 1)
    \/ \E h \in DOMAIN pool, o \in WorkerOutcomes : WorkerFinish(h, o)
    \/ Sweep(0)
    \/ FinishExtract
    \/ ScanBegin(FALSE)
    \/ ScanWalk
    \/ \E p \in Paths : pc = "idle" /\ ModifyFile(p)

SpecRescan == InitScan /\ [][NextRescan]_vars

(* ---------------------------------------------------------------------- *)
(* The catalog used as a library (db.py): any caller, any order of calls   *)
(* ---------------------------------------------------------------------- *)
\* the ids a caller passes; no foreign key is enforced (db.py 200-216 opens
\* the connection without PRAGMA foreign_keys), so they need not exist
FileIds == 1..2
RunIds == 1..2

\* an extraction result with a status, as a caller builds it
ApiResult(status, file_id) ==
    [status |-> status, method |-> "text",
     output_path |-> IF status = "success" THEN file_id ELSE NoPath,
     error |-> IF status = "success" THEN NoError
               ELSE [msg |-> "All extractors failed. Last error: ", elapsed |-> 0,
                     detail |-> "Failed to read file: "]]

\* the id of the row of a (file, run) pair: RETURNING id
ExtractionId(es, file_id, run_id) ==
    (CHOOSE e \in Rows(es) : e.file_id = file_id /\ e.extraction_run_id = run_id).id
LabelId(ls, file_id, run_id) ==
    (CHOOSE l \in Rows(ls) : l.file_id = file_id /\ l.labeling_run_id = run_id).id

\* Database(path) on a new file: the schema is created, the tables are empty
\* the schema_version table of the file being opened: a new file, a catalog of
\* this engine, a catalog written by a newer engine
SchemaStates == {{}, {SCHEMA_VERSION}, {SCHEMA_VERSION, SCHEMA_VERSION + 1}}

InitCatalog ==
    /\ content = OriginalBytes
    /\ runs = <<>> /\ files = <<>> /\ extractions = <<>> /\ labels = <<>>
    /\ pc = "closed"
    /\ cmd = NoCmd
    /\ log = <<>>
    /\ SupervisorInit
    /\ label_files = <<>>
    /\ disk = [p \in Paths |-> "readable"]
    /\ calls = 0
    /\ last_call = NoCall
    /\ LabelingInit
    /\ schema_version \in SchemaStates
    /\ sidecars = NoSidecars
    /\ walk = NoWalk

\* Database.__init__ / _ensure_schema by a caller of the library
OpenDatabase ==
    /\ pc = "closed"
    /\ schema_version' = ensure_schema(schema_version)
    /\ pc' = "library"
    /\ last_call' = Call("open", 0, 0, Null, current_version(schema_version))
        /\ UNCHANGED <<catalog, cmd, log, supervisor, label_files, disk, walk, calls,
                       labeling, content, sidecars>>

CallCreateRun(run_type) ==
    /\ pc = "library" /\ calls < MaxCalls
    /\ runs' = create_run(runs, run_type)
    /\ calls' = calls + 1
    /\ last_call' = Call("create_run", 0, Len(runs) + 1, run_type, Len(runs) + 1)
    /\ UNCHANGED <<files, extractions, labels, pc, cmd, log, supervisor, label_files, disk, walk,
                   labeling, schema_version, content, sidecars>>

CallCompleteRun(run_id, error) ==
    /\ pc = "library" /\ calls < MaxCalls
    /\ runs' = complete_run(runs, run_id, error)
    /\ calls' = calls + 1
    /\ last_call' = Call("complete_run", 0, run_id, error, 0)
    /\ UNCHANGED <<files, extractions, labels, pc, cmd, log, supervisor, label_files, disk, walk,
                   labeling, schema_version, content, sidecars>>

CallInsertFile(path, sha256) ==
    /\ pc = "library" /\ calls < MaxCalls
    /\ files' = insert_file(files, path, sha256, 1)
    /\ calls' = calls + 1
    /\ last_call' = Call("insert_file", path, 1, sha256,
                         (CHOOSE f \in Rows(files') : f.path = path).id)
    /\ UNCHANGED <<runs, extractions, labels, pc, cmd, log, supervisor, label_files, disk, walk,
                   labeling, schema_version, content, sidecars>>

CallRecordExtraction(file_id, run_id, status) ==
    /\ pc = "library" /\ calls < MaxCalls
    /\ extractions' = record_extraction(extractions, file_id, run_id,
                                        ApiResult(status, file_id))
    /\ calls' = calls + 1
    /\ last_call' = Call("record_extraction", file_id, run_id, status,
                         ExtractionId(extractions', file_id, run_id))
    /\ UNCHANGED <<runs, files, labels, pc, cmd, log, supervisor, label_files, disk, walk,
                   labeling, schema_version, content, sidecars>>

CallRecordLabel(file_id, run_id, doc_type) ==
    /\ pc = "library" /\ calls < MaxCalls
    /\ labels' = record_label(labels, file_id, run_id,
                              LabelOutput(doc_type, 90, "2024-01-15", "Acme", <<"why">>),
                              "default_model")
    /\ calls' = calls + 1
    /\ last_call' = Call("record_label", file_id, run_id, doc_type,
                         LabelId(labels', file_id, run_id))
    /\ UNCHANGED <<runs, files, extractions, pc, cmd, log, supervisor, label_files, disk, walk,
                   labeling, schema_version, content, sidecars>>

NextCatalog ==
    \/ OpenDatabase
    \/ \E run_type \in {"extract", "label"} : CallCreateRun(run_type)
    \/ \E run_id \in RunIds, error \in {Null, "", "error"} : CallCompleteRun(run_id, error)
    \/ \E path \in 1..2, sha256 \in 1..2 : CallInsertFile(path, sha256)
    \/ \E file_id \in FileIds, run_id \in RunIds, status \in {"success", "failed"} :
           CallRecordExtraction(file_id, run_id, status)
    \/ \E file_id \in FileIds, run_id \in RunIds, doc_type \in {"receipt", "financial"} :
           CallRecordLabel(file_id, run_id, doc_type)

SpecCatalog == InitCatalog /\ [][NextCatalog]_vars

(* ---------------------------------------------------------------------- *)
(* ExtractionPipeline used as a library                                    *)
(* ---------------------------------------------------------------------- *)
\* a scanned tree, an extraction run, and any extraction.max_text_length
\* without docling, or the default one with docling
InitPipeline ==
    /\ content = OriginalBytes
    /\ runs = create_run(complete_run(create_run(<<>>, "scan"), 1, Null), "extract")
    /\ files = ScanTree(<<>>, 1, 1)
    /\ extractions = <<>>
    /\ labels = <<>>
    /\ pc = "pipeline"
    /\ cmd = NoCmd
    /\ log = <<>>
    /\ SupervisorInit
    /\ label_files = <<>>
    /\ disk \in Trees
    /\ calls = 0
    /\ last_call = NoCall
    /\ config \in [max_retries : {3}, no_escalate : {FALSE},
                    max_text_length : 0..MaxTextLength, use_docling : {FALSE}]
                   \cup {[NoConfig EXCEPT !.use_docling = TRUE]}
    /\ llm = NoLlm
    /\ stats = NoStats
    /\ last_result = NoResult
    /\ schema_version = {SCHEMA_VERSION}
    /\ sidecars = NoSidecars
    /\ walk = NoWalk

\* pipeline.py 76-131: extract_file on a file of the catalog in a process that
\* has constructed some pipelines, and the caller recording the result;
\* last_call keeps the extractors that were invoked
ExtractFile(f, pipelines) ==
    LET result == extract_file(config, pipelines, f.path, f.sha256, disk[f.path],
                               content[f.path])
    IN  /\ pc = "pipeline"
        /\ calls < MaxCalls
        /\ calls' = calls + 1
        /\ sidecars' = SidecarsAfter(sidecars, f.sha256, result)
        /\ extractions' = record_extraction(extractions, f.id, 2, WorkerResult(result))
        /\ last_call' = Call("extract_file", f.id, 2, result.tried, result.status)
        /\ UNCHANGED <<runs, files, labels, pc, cmd, log, supervisor, label_files, disk, walk,
                       labeling, schema_version, content>>

\* the user empties extracted_text_dir between calls
ClearExtractionStore ==
    /\ pc = "pipeline"
    /\ sidecars # NoSidecars
    /\ sidecars' = NoSidecars
    /\ UNCHANGED <<catalog, pc, cmd, log, supervisor, label_files, disk, walk, api,
                   labeling, schema_version, content>>

NextPipeline ==
    \/ \E f \in Rows(files), pipelines \in 1..MaxPipelines : ExtractFile(f, pipelines)
    \/ ClearExtractionStore

SpecPipeline == InitPipeline /\ [][NextPipeline]_vars

(* ---------------------------------------------------------------------- *)
(* lucien label, request by request                                        *)
(* ---------------------------------------------------------------------- *)
\* the catalog after a scan and an extraction of two files, one of them
\* extracted twice; the operator's configuration is any of those tried
InitLabel ==
    /\ content = OriginalBytes
    /\ runs = complete_run(create_run(complete_run(create_run(<<>>, "scan"), 1, Null),
                                      "extract"), 2, Null)
    /\ files = insert_file(insert_file(<<>>, 1, Digest(content[1]), 1),
                           2, Digest(content[2]), 1)
    /\ extractions = record_extraction(
                         record_extraction(<<>>, 1, 2, ApiResult("success", 1)),
                         2, 2, ApiResult("success", 2))
    /\ labels = <<>>
    /\ pc = "idle"
    /\ cmd = NoCmd
    /\ log = <<>>
    /\ SupervisorInit
    /\ label_files = <<>>
    /\ disk = [p \in Paths |-> "readable"]
    /\ calls = 0
    /\ last_call = NoCall
    /\ config \in Configs
    /\ llm = NoLlm
    /\ stats = NoStats
    /\ last_result = NoResult
    /\ schema_version = {SCHEMA_VERSION}
    /\ sidecars = NoSidecars
    /\ walk = NoWalk

\* the loop is between two files
BetweenFiles == pc = "label" /\ llm.model = Null
\* label_file is running and label_document is about to test its loop
InLabelDocument == pc = "label" /\ llm.model # Null

\* cli.py 1133-1142, pipeline.py 87-95, client.py 75-82: label_file is called
\* on the next file and label_document starts with the default model
LabelFileStart ==
    /\ BetweenFiles
    /\ label_files # <<>>
    /\ llm' = [NoLlm EXCEPT !.model = "default_model"]
    /\ UNCHANGED <<catalog, pc, cmd, log, supervisor, label_files, disk, walk, api,
                   config, stats, last_result, schema_version, content, sidecars>>

ReturnLabel_defaultname(label, escalated, r) ==
    LET file_id == Head(label_files).id
    IN  /\ labels' = record_label(labels, file_id, cmd.run_id, label, "default_model")
        /\ stats' = [stats EXCEPT !.success = @ + 1,
                                  !.escalated = IF escalated THEN @ + 1 ELSE @]
        /\ last_result' = [file |-> file_id, label |-> label, escalated |-> escalated,
                           error |-> NoFailure]
        /\ label_files' = Tail(label_files)
        /\ llm' = [NoLlm EXCEPT !.requests = Append(llm.requests, llm.model),
                                !.response = r]

\* label_file returns (label, escalated, None): pipeline.py 97-122 and the
\* loop's bookkeeping, cli.py 1144-1162
ReturnLabel(label, escalated, r) ==
    LET file_id == Head(label_files).id
        model_name == IF escalated THEN "escalation_model" ELSE "default_model"
    IN  /\ labels' = record_label(labels, file_id, cmd.run_id, label, model_name)
        /\ stats' = [stats EXCEPT !.success = @ + 1,
                                  !.escalated = IF escalated THEN @ + 1 ELSE @]
        /\ last_result' = [file |-> file_id, label |-> label, escalated |-> escalated,
                           error |-> NoFailure]
        /\ label_files' = Tail(label_files)
        /\ llm' = [NoLlm EXCEPT !.requests = Append(llm.requests, llm.model),
                                !.response = r]

ReturnError_unmarked(error) ==
    LET file_id == Head(label_files).id
    IN  /\ stats' = stats
        /\ last_result' = [file |-> file_id, label |-> NoLabel, escalated |-> FALSE,
                           error |-> error]
        /\ label_files' = Tail(label_files)
        /\ llm' = [NoLlm EXCEPT !.requests = llm.requests]
        /\ UNCHANGED labels

\* label_file returns (None, False, str(e)): pipeline.py 124-125 and the
\* loop's bookkeeping, cli.py 1144-1152
ReturnError(error) ==
    LET file_id == Head(label_files).id
    IN  /\ stats' = [stats EXCEPT !.failed = @ + 1,
                                  !.errors = Append(@, <<file_id, error>>)]
        /\ last_result' = [file |-> file_id, label |-> NoLabel, escalated |-> FALSE,
                           error |-> error]
        /\ label_files' = Tail(label_files)
        /\ llm' = [NoLlm EXCEPT !.requests = llm.requests]
        /\ UNCHANGED labels

Exhausted_late == llm.attempt > config.max_retries

\* for attempt in range(max_retries): the loop has run out of attempts
Exhausted == llm.attempt >= config.max_retries

\* client.py 84-128 and 133-155: one chat-completion request comes back
Request(r) ==
    LET res      == ParseResponse(r)
        requests == Append(llm.requests, llm.model)
    IN  /\ InLabelDocument
        /\ ~Exhausted
        /\ IF res.error # Null
           THEN /\ llm' = [llm EXCEPT !.attempt = @ + 1, !.last_error = res.error,
                                      !.requests = requests, !.response = r]
                /\ UNCHANGED <<labels, stats, last_result, label_files>>
           ELSE IF /\ llm.model = "default_model"
                   /\ ~config.no_escalate
                   /\ should_escalate(res.label)
           THEN /\ llm' = [model |-> "escalation_model", attempt |-> 0,
                           last_error |-> Null, initial_result |-> res.label,
                           requests |-> requests, response |-> r]
                /\ UNCHANGED <<labels, stats, last_result, label_files>>
           ELSE ReturnLabel(res.label, llm.model = "escalation_model", r)
        /\ UNCHANGED <<runs, files, extractions, pc, cmd, log, supervisor, disk, walk, api,
                       config, schema_version, content, sidecars>>

RaiseExhausted_keepinitial ==
    /\ InLabelDocument
    /\ Exhausted
    /\ IF llm.initial_result # NoLabel
       THEN ReturnLabel(llm.initial_result, FALSE, llm.response)
       ELSE ReturnError([raised |-> TRUE, attempts |-> config.max_retries,
                         last_error |-> llm.last_error])
    /\ UNCHANGED <<runs, files, extractions, pc, cmd, log, supervisor, disk, walk, api,
                   config, schema_version, content, sidecars>>

\* client.py 130-131: all retries exhausted; label_file catches the exception
RaiseExhausted ==
    /\ InLabelDocument
    /\ Exhausted
    /\ ReturnError([raised |-> TRUE, attempts |-> config.max_retries,
                    last_error |-> llm.last_error])
    /\ UNCHANGED <<runs, files, extractions, pc, cmd, log, supervisor, disk, walk, api,
                   config, schema_version, content, sidecars>>

\* pipeline.py 124-125: any other exception inside label_file's try block
LabelFileOtherError ==
    /\ InLabelDocument
    /\ ReturnError([raised |-> TRUE, attempts |-> 0, last_error |-> "other"])
    /\ UNCHANGED <<runs, files, extractions, pc, cmd, log, supervisor, disk, walk, api,
                   config, schema_version, content, sidecars>>

NextLabel ==
    \/ LabelBegin(FALSE, 0)
    \/ LabelFileStart
    \/ \E r \in Responses : Request(r)
    \/ RaiseExhausted
    \/ LabelFileOtherError
    \/ LabelEnd

SpecLabel == InitLabel /\ [][NextLabel]_vars

(* ---------------------------------------------------------------------- *)
(* Properties                                                              *)
(* ---------------------------------------------------------------------- *)
Terminal == {"completed", "failed"}

\* the extraction rows written for a run
RowsOfRun(r) == {e \in Rows(extractions) : e.extraction_run_id = r}

\* the row was written by the hang handler (cli.py 659-687)
IsHungRow(e) == e.error.msg = "Worker hung after "

\* the files the files-needing-extraction query returns when run r starts:
\* the success rows present then are those of earlier runs
StartWorkSet(r) ==
    {f \in Rows(files) :
        /\ NotSkipped(f.path)
        /\ ~\E e \in Rows(extractions) :
               e.file_id = f.id /\ e.status = "success" /\ e.extraction_run_id < r}

\* the files-needing-extraction count right after run r
CountAfter(r) ==
    Cardinality({f \in Rows(files) :
        /\ NotSkipped(f.path)
        /\ ~\E e \in Rows(extractions) :
               e.file_id = f.id /\ e.status = "success" /\ e.extraction_run_id <= r})

\* a plain extract (no --force, no --limit) that ended normally
PlainExtractDone(entry) ==
    /\ entry.cmd.type = "extract" /\ ~entry.cmd.force /\ entry.cmd.limit = 0
    /\ entry.exit = "ok"

\* C1: when an extract without --force and --limit has ended normally, every
\* file the files-needing-extraction query returned at its start has an
\* extraction row for that run.
C1_EveryQueuedFileRecorded ==
    \A i \in 1..Len(log) :
        PlainExtractDone(log[i]) =>
            \A f \in StartWorkSet(log[i].cmd.run_id) :
                \E e \in RowsOfRun(log[i].cmd.run_id) : e.file_id = f.id

\* C2: two plain extracts in a row over an unchanged tree, the extractor giving
\* each file the same outcome both times and no task timing out: the
\* files-needing-extraction count after the second equals the count after the first.
C2_SecondRunSameCount ==
    \A i \in 1..(Len(log) - 1) :
        LET r1 == log[i].cmd.run_id
            r2 == log[i + 1].cmd.run_id
        IN  ( /\ PlainExtractDone(log[i]) /\ PlainExtractDone(log[i + 1])
              /\ \A e \in RowsOfRun(r1) \cup RowsOfRun(r2) : ~IsHungRow(e)
              /\ \A e1 \in RowsOfRun(r1), e2 \in RowsOfRun(r2) :
                     e1.file_id = e2.file_id => e1.status = e2.status )
            => CountAfter(r2) = CountAfter(r1)

\* C3: the supervisor loop terminates: every started extract reaches
\* complete_run and returns, whatever the workers do (tasks may never finish).
C3_SupervisorTerminates ==
    (pc = "extract") ~>
        (/\ pc = "idle" /\ log # <<>>
         /\ log[Len(log)].exit = "ok"
         /\ runs[log[Len(log)].cmd.run_id].status = "completed")

\* an extract has returned although one of its tasks never finished
C3_Witness ==
    /\ pc = "idle" /\ log # <<>> /\ log[Len(log)].exit = "ok"
    /\ log[Len(log)].cmd.type = "extract"
    /\ runs[log[Len(log)].cmd.run_id].status = "completed"
    /\ \E e \in RowsOfRun(log[Len(log)].cmd.run_id) : IsHungRow(e)

\* the hang rows: failed, one per (file, run), and no handle of the file is
\* held any more by the supervisor of that run
C4_HungRows ==
    \A e \in Rows(extractions) :
        IsHungRow(e) =>
            /\ e.status = "failed"
            /\ Cardinality({x \in RowsOfRun(e.extraction_run_id) : x.file_id = e.file_id}) = 1
            /\ (pc = "extract" /\ cmd.run_id = e.extraction_run_id) =>
                   \A h \in DOMAIN active_jobs : active_jobs[h].file_info.id # e.file_id

\* a step that writes a hang row submits the next queued task, and no step
\* changes a hang row (the late result of the task is never recorded)
C4_Step ==
    /\ \A i \in 1..Len(extractions) :
           IsHungRow(extractions[i]) =>
               i <= Len(extractions') /\ extractions'[i] = extractions[i]
    /\ (\E e \in Rows(extractions') \ Rows(extractions) : IsHungRow(e)) =>
           task_queue' = <<>> \/ next_worker_slot' > next_worker_slot

C5_ExactlyAtThresholdIsHung ==
    \A h \in DOMAIN active_jobs : active_jobs[h].elapsed # HUNG_WORKER_TIMEOUT

\* C5 amended: the hang test is strict. A task read at exactly 600.0 s or at
\* 599.9 s stays in flight and is shown as processing (slow); only a reading
\* above 600.0 s makes a hang row.
C5_OnlyAboveThresholdIsHung ==
    /\ \A h \in DOMAIN active_jobs :
           LET j == active_jobs[h]
           IN  /\ j.elapsed <= HUNG_WORKER_TIMEOUT
               /\ ( /\ j.elapsed \in {HUNG_WORKER_TIMEOUT - 1, HUNG_WORKER_TIMEOUT}
                    /\ worker_status[j.worker_slot].file = j.file_info.id )
                  => worker_status[j.worker_slot].status = "processing (slow)"
    /\ \A e \in Rows(extractions) :
           IsHungRow(e) => e.error.elapsed > HUNG_WORKER_TIMEOUT

\* a task read at exactly 600.0 s is still in flight and shown as slow
C5_Witness ==
    \E h \in DOMAIN active_jobs :
        /\ active_jobs[h].elapsed = HUNG_WORKER_TIMEOUT
        /\ worker_status[active_jobs[h].worker_slot] =
               [file |-> active_jobs[h].file_info.id, status |-> "processing (slow)"]

\* one row per pair, ids are row numbers, and the id returned by the last
\* recording names the row holding what was recorded
C6_Unique ==
    /\ \A i, j \in 1..Len(extractions) :
           ( /\ extractions[i].file_id = extractions[j].file_id
             /\ extractions[i].extraction_run_id = extractions[j].extraction_run_id )
           => i = j
    /\ \A i, j \in 1..Len(labels) :
           ( /\ labels[i].file_id = labels[j].file_id
             /\ labels[i].labeling_run_id = labels[j].labeling_run_id )
           => i = j
    /\ \A i \in 1..Len(extractions) : extractions[i].id = i
    /\ \A i \in 1..Len(labels) : labels[i].id = i
    /\ last_call.op = "record_extraction" =>
           /\ last_call.returned \in 1..Len(extractions)
           /\ extractions[last_call.returned].file_id = last_call.file_id
           /\ extractions[last_call.returned].extraction_run_id = last_call.run_id
           /\ extractions[last_call.returned].status = last_call.value
    /\ last_call.op = "record_label" =>
           /\ last_call.returned \in 1..Len(labels)
           /\ labels[last_call.returned].file_id = last_call.file_id
           /\ labels[last_call.returned].labeling_run_id = last_call.run_id
           /\ labels[last_call.returned].doc_type = last_call.value

\* recording on a pair that has a row keeps the table's length, the row's id
\* and every other row; recording what the row already holds changes nothing
C6_Step ==
    /\ ( /\ calls' = calls + 1 /\ last_call'.op = "record_extraction"
         /\ \E e \in Rows(extractions) :
                e.file_id = last_call'.file_id /\ e.extraction_run_id = last_call'.run_id )
       => LET k == ExtractionId(extractions, last_call'.file_id, last_call'.run_id)
          IN  /\ Len(extractions') = Len(extractions)
              /\ last_call'.returned = k
              /\ \A i \in 1..Len(extractions) :
                     i # k => extractions'[i] = extractions[i]
              /\ extractions[k].status = last_call'.value => extractions' = extractions
    /\ ( /\ calls' = calls + 1 /\ last_call'.op = "record_label"
         /\ \E l \in Rows(labels) :
                l.file_id = last_call'.file_id /\ l.labeling_run_id = last_call'.run_id )
       => LET k == LabelId(labels, last_call'.file_id, last_call'.run_id)
          IN  /\ Len(labels') = Len(labels)
              /\ last_call'.returned = k
              /\ \A i \in 1..Len(labels) : i # k => labels'[i] = labels[i]
              /\ labels[k].doc_type = last_call'.value => labels' = labels

\* C6: at most one extraction row per (file, extraction run) and one label row
\* per (file, labeling run); recording on an existing pair updates the row in
\* place (same id, new values), so repeating a recording changes nothing.
C6_UpsertInPlace == []C6_Unique /\ [][C6_Step]_vars

\* a recording hit an existing pair: the id returned is that of an earlier
\* row, which now holds the new status
C6_Witness ==
    /\ last_call.op = "record_extraction"
    /\ last_call.returned < Len(extractions)
    /\ last_call.value = "failed"
    /\ extractions[last_call.returned].status = "failed"

\* C7: a run has completed_at set exactly when its status is terminal;
\* a run is failed exactly when an error text was stored with it.
C7_CompletedAtIffTerminal ==
    \A r \in Rows(runs) :
        /\ r.status \in Terminal \cup {"running"}
        /\ (r.completed_at # Null) <=> (r.status \in Terminal)
        /\ (r.status = "failed") <=> Truthy(r.error)

\* a run completed with an error beside a run completed without one
C7_Witness ==
    /\ \E r \in Rows(runs) :
           r.run_type = "extract" /\ r.status = "failed" /\ r.completed_at = Timestamp
    /\ \E r \in Rows(runs) :
           r.run_type = "extract" /\ r.status = "completed" /\ r.completed_at = Timestamp

\* C8: after a cancellation during extract the run is terminal and carries
\* the error; it is not left 'running'.
C8_CancelledRunTerminal ==
    \A i \in 1..Len(log) :
        log[i].exit = "cancelled" =>
            /\ runs[log[i].cmd.run_id].status \in Terminal
            /\ Truthy(runs[log[i].cmd.run_id].error)

\* C9: when a scan, extract or label that created a run has returned
\* gracefully (normal end, nothing to do, dry run, handled error), the run's
\* status is terminal.
C9_GracefulExitTerminal ==
    \A i \in 1..Len(log) :
        (log[i].exit \in GracefulExits /\ log[i].cmd.run_id # 0) =>
            runs[log[i].cmd.run_id].status \in Terminal

\* C10: every label row targets a file that has a success extraction row.
C10_LabelsHaveSuccess ==
    \A l \in Rows(labels) : HasSuccess(extractions, l.file_id)

\* the labeling loop has written a label while a file without a success row
\* (failed or never extracted) is in the catalog
C10_Witness ==
    /\ labels # <<>>
    /\ \E l \in Rows(labels) : l.labeling_run_id = Len(runs)
    /\ \E f \in Rows(files) : NotSkipped(f.path) /\ ~HasSuccess(extractions, f.id)

\* the ids a labeling query returns, in order
QueueIds(force) ==
    LET q == get_files_for_labeling(files, extractions, labels, force, 0)
    IN  [i \in 1..Len(q) |-> q[i].id]

\* the files with a success extraction row
ExtractedIds ==
    {f.id : f \in {g \in Rows(files) :
                      \E e \in Rows(extractions) : e.file_id = g.id /\ e.status = "success"}}

\* the files with a label row of any labeling run
LabeledIds ==
    {f.id : f \in {g \in Rows(files) : \E l \in Rows(labels) : l.file_id = g.id}}

\* the labeling queue is the set of extracted, unlabeled files, each once, and
\* the forced queue the extracted files; the counts are the sizes of these sets
C11_Queue ==
    LET q  == QueueIds(FALSE)
        qf == QueueIds(TRUE)
    IN  /\ {q[i] : i \in 1..Len(q)} = ExtractedIds \ LabeledIds
        /\ {qf[i] : i \in 1..Len(qf)} = ExtractedIds
        /\ \A i, j \in 1..Len(q) : q[i] = q[j] => i = j
        /\ \A i, j \in 1..Len(qf) : qf[i] = qf[j] => i = j
        /\ count_files_for_labeling(files, extractions, labels, FALSE)
               = Cardinality(ExtractedIds \ LabeledIds)
        /\ count_files_for_labeling(files, extractions, labels, TRUE)
               = Cardinality(ExtractedIds)

\* a label recorded for a file takes it out of the queue and leaves it in the
\* forced queue
C11_Step ==
    (calls' = calls + 1 /\ last_call'.op = "record_label") =>
        LET q   == get_files_for_labeling(files', extractions', labels', FALSE, 0)
            qf  == get_files_for_labeling(files, extractions, labels, TRUE, 0)
            qf2 == get_files_for_labeling(files', extractions', labels', TRUE, 0)
        IN  /\ \A i \in 1..Len(q) : q[i].id # last_call'.file_id
            /\ qf2 = qf

\* C11: get_files_for_labeling(force=False) returns exactly the files with a
\* success extraction row and no label row, each once; count_files_for_labeling
\* is the size of that set; a labeled file leaves the queue and stays in the
\* forced queue.
C11_LabelingQueue == []C11_Queue /\ [][C11_Step]_vars

\* a file with two success rows is in the queue, once
C11_Witness ==
    \E f \in Rows(files) :
        /\ Cardinality({e \in Rows(extractions) :
                           e.file_id = f.id /\ e.status = "success"}) = 2
        /\ QueueIds(FALSE) = <<f.id>>
        /\ count_files_for_labeling(files, extractions, labels, FALSE) = 1

\* the response of the last request sent
Received == llm.response

\* the escalation predicate as the specification words it
EscalationCondition(label) ==
    \/ label.doc_type \in escalation_doc_types
    \/ label.confidence < escalation_threshold
    \/ /\ label.doc_type \in {"financial", "tax", "medical", "insurance", "legal"}
       /\ label.date \in {Null, ""} \/ label.issuer \in {Null, ""}

\* the default model's label came back and escalation is enabled: the client
\* goes on with the escalation model exactly when the condition holds
C12_Step ==
    LET r == Received'
    IN  ( /\ llm.model = "default_model" /\ ~config.no_escalate
          /\ Request(r)
          /\ ParseResponse(r).error = Null )
        => ( (llm'.model = "escalation_model")
             <=> EscalationCondition(ParseResponse(r).label) )

\* C12: should_escalate is true exactly when the initial doc_type is in
\* llm.escalation_doc_types, or the confidence is strictly below the threshold,
\* or the doc_type is one of financial, tax, medical, insurance, legal and date
\* or issuer is missing; confidence equal to the threshold alone does not
\* escalate.
C12_EscalationPredicate ==
    /\ [](llm.model = "escalation_model" =>
              EscalationCondition(llm.initial_result))
    /\ [][C12_Step]_vars

\* a label with confidence exactly at the threshold came back from the default
\* model with escalation enabled and was not escalated
C12_Witness ==
    /\ last_result.file # 0 /\ last_result.error = NoFailure
    /\ llm.model = Null /\ llm.requests = <<"default_model">>
    /\ ~config.no_escalate
    /\ ~last_result.escalated
    /\ last_result.label.confidence = escalation_threshold

\* how many of the requests went to a model
CountModel(requests, model) ==
    Cardinality({i \in 1..Len(requests) : requests[i] = model})

\* the default model is asked first and the escalation model after it
DefaultFirst(requests) ==
    /\ requests # <<>> => requests[1] = "default_model"
    /\ \A i, j \in 1..Len(requests) :
           i < j /\ requests[i] = "escalation_model" => requests[j] = "escalation_model"

C13_State ==
    /\ DefaultFirst(llm.requests)
    /\ llm.model = "escalation_model" =>
           ~config.no_escalate /\ should_escalate(llm.initial_result)
    /\ (llm.model = Null /\ last_result.file # 0 /\ last_result.error = NoFailure) =>
           /\ last_result.escalated
                  <=> CountModel(llm.requests, "escalation_model") > 0
           /\ \E l \in Rows(labels) :
                  /\ l.file_id = last_result.file
                  /\ pc = "label" => l.labeling_run_id = cmd.run_id
                  /\ l.model_name = IF last_result.escalated THEN "escalation_model"
                                    ELSE "default_model"
                  /\ LabelOutput(l.doc_type, l.confidence, l.date, l.issuer, l.why)
                         = last_result.label

\* the label the escalation model sends is the one returned and recorded
C13_Step ==
    LET r == Received'
    IN  ( /\ llm.model = "escalation_model"
          /\ Request(r)
          /\ ParseResponse(r).error = Null )
        => /\ last_result'.label = ParseResponse(r).label
           /\ last_result'.escalated
           /\ \E l \in Rows(labels') :
                  /\ l.file_id = last_result'.file
                  /\ l.model_name = "escalation_model"
                  /\ l.confidence = r.confidence /\ l.date = r.date
                  /\ l.issuer = r.issuer

\* C13: label_with_escalation asks the default model first and the escalation
\* model only if the predicate holds for the default model's result; on
\* escalation the escalation model's result is returned with escalated=true and
\* recorded; the row's model_name is the escalation model iff escalation
\* happened.
C13_EscalationOrder == []C13_State /\ [][C13_Step]_vars

\* an escalated label whose confidence differs from the initial one's reason to
\* escalate: the recorded row carries the escalation model's answer
C13_Witness ==
    /\ last_result.file # 0 /\ last_result.error = NoFailure
    /\ llm.model = Null /\ llm.requests = <<"default_model", "escalation_model">>
    /\ last_result.escalated
    /\ last_result.label.doc_type = "receipt"
    /\ last_result.label.confidence = escalation_threshold
    /\ \E l \in Rows(labels) : l.file_id = last_result.file
                                /\ l.model_name = "escalation_model"
                                /\ l.doc_type = "receipt"

C14_State ==
    /\ llm.attempt <= config.max_retries
    /\ \A m \in {"default_model", "escalation_model"} :
           CountModel(llm.requests, m) <= config.max_retries
    /\ ( /\ llm.model = Null
         /\ last_result.error # NoFailure /\ last_result.error.last_error # "other" ) =>
           /\ last_result.error.attempts = config.max_retries
           /\ llm.requests # <<>> =>
                  CountModel(llm.requests,
                             llm.requests[Len(llm.requests)])
                      = config.max_retries
           /\ last_result.error.last_error # Null <=> config.max_retries > 0

\* a response that parses and validates ends the call; a failed one is followed
\* by the next attempt with its cause kept; the raise carries the last cause
C14_Step ==
    /\ LET r == Received'
       IN  Request(r) =>
               IF ParseResponse(r).error = Null
               THEN llm'.model # llm.model
               ELSE /\ llm'.model = llm.model
                    /\ llm'.attempt = llm.attempt + 1
                    /\ llm'.last_error = ParseResponse(r).error
    /\ RaiseExhausted => last_result'.error.last_error = llm.last_error

\* C14: label_document sends at most llm.max_retries requests per call, returns
\* the first response that parses and validates, retries at once after a
\* failure, and after max_retries failures raises an error naming the attempt
\* count and the last cause.
C14_Retries == []C14_State /\ [][C14_Step]_vars

\* both kinds of failure happened and the call gave up after two requests
C14_Witness ==
    /\ config.max_retries = 2 /\ llm.model = Null
    /\ last_result.error = [raised |-> TRUE, attempts |-> 2,
                          last_error |-> "LLM call failed"]
    /\ Len(llm.requests) = 2

C15_State ==
    \A l \in Rows(labels) :
        /\ l.doc_type \in doc_types \cup {"other", "uncategorized"}
        /\ l.confidence >= 0 /\ l.confidence <= 100

C15_Step ==
    LET r == Received'
    IN  Request(r) =>
            /\ (r.kind = "json" /\ (r.confidence < 0 \/ r.confidence > 100)) =>
                   /\ labels' = labels
                   /\ llm'.last_error = "Invalid JSON response"
            /\ (ParseResponse(r).error = Null /\ r.doc_type \notin doc_types) =>
                   /\ ParseResponse(r).label.doc_type = "other"
                   /\ ParseResponse(r).label.why
                          = <<"[Auto-corrected from '", r.doc_type, "'] ">> \o <<"why">>
                   /\ labels' # labels =>
                          \E l \in Rows(labels') :
                              /\ l.file_id = last_result'.file
                              /\ l.doc_type = "other"
                              /\ l.why = ParseResponse(r).label.why

\* C15: every label row the loop records has doc_type in the vocabulary or in
\* {other, uncategorized} and confidence in [0, 1]; an out-of-vocabulary
\* doc_type is rewritten to "other" with the explanation prefixed by
\* "[Auto-corrected from '<original>'] "; a response with confidence out of
\* range is a validation failure and is never recorded.
C15_LabelRowsValid == []C15_State /\ [][C15_Step]_vars

\* a corrected label has been recorded, after an out-of-range answer was refused
C15_Witness ==
    /\ \E l \in Rows(labels) :
           /\ l.file_id = last_result.file
           /\ l.doc_type = "other"
           /\ l.why = <<"[Auto-corrected from '", "bogus", "'] ", "why">>
    /\ llm.model = Null /\ Len(llm.requests) > 1

\* the label run of the command that is running or has just ended
LabelRun == {r \in Rows(runs) : r.run_type = "label"}

C16_State ==
    /\ stats.failed = Len(stats.errors)
    /\ (llm.model = Null /\ last_result.error.raised) =>
           /\ last_result.label = NoLabel /\ ~last_result.escalated
           /\ stats.errors # <<>>
           /\ stats.errors[Len(stats.errors)] = <<last_result.file, last_result.error>>
           /\ ~(\E l \in Rows(labels) : l.file_id = last_result.file)
    /\ (pc = "idle" /\ log # <<>>) =>
           /\ \A r \in LabelRun : r.status = "completed" /\ r.completed_at # Null
           /\ stats.success + stats.failed = Len(files)
           /\ stats.success = Len(labels)

\* a step in which label_file fails leaves the loop running on the next file
C16_Step ==
    (pc = "label" /\ stats'.failed # stats.failed) =>
        /\ pc' = "label" /\ runs' = runs /\ labels' = labels
        /\ label_files' = Tail(label_files)
        /\ stats'.failed = stats.failed + 1
        /\ stats'.errors = Append(stats.errors, <<Head(label_files).id, last_result'.error>>)
        /\ last_result'.error.raised

\* C16: when the client exhausts its retries or another error occurs for a
\* file, label_file returns (no label, escalated=false, error text), the file
\* is counted and listed as failed in the labeling run's stats, no label row is
\* written for it, and the loop goes on with the remaining files and completes
\* the run.
C16_FailedFileDoesNotStopLoop == []C16_State /\ [][C16_Step]_vars

\* the first file failed after its retries, the second was labeled, and the
\* run ended completed
C16_Witness ==
    /\ pc = "idle" /\ log # <<>>
    /\ stats.failed = 1 /\ stats.success = 1
    /\ stats.errors[1][1] = 1 /\ stats.errors[1][2].attempts = 2
    /\ \E l \in Rows(labels) : l.file_id = 2
    /\ \A r \in LabelRun : r.status = "completed"

\* C17: a catalog whose recorded schema version is newer than SCHEMA_VERSION
\* is never open: constructing Database on it fails.
C17_NewerSchemaRefused ==
    pc = "library" => \A v \in schema_version : v <= SCHEMA_VERSION

\* the files edited since the first scan
Changed == {p \in Paths : content[p] # OriginalBytes[p]}

\* a scan that writes keeps the rows, their ids and paths, and stores the
\* digest of the bytes it finds
C18_Step ==
    (pc = "scan" /\ ~cmd.dry_run /\ files' # files) =>
        /\ Len(files') = Len(files)
        /\ \A i \in 1..Len(files) :
               /\ files'[i].id = files[i].id /\ files'[i].path = files[i].path
               /\ files'[i].sha256 = Digest(content[files[i].path])
               /\ content[files[i].path] = OriginalBytes[files[i].path]
                      => files'[i].sha256 = files[i].sha256

\* C18: scanning is an upsert by path: a second scan of the unchanged tree
\* keeps the number of rows, every digest and every file id; if one file's
\* bytes changed, the row count is the same, that file's digest is updated in
\* place and the other digests are unchanged.
C18_ScanUpsertsByPath ==
    /\ [](Len(files) = NumFiles /\ \A i \in 1..Len(files) : files[i].id = i
                                                          /\ files[i].path = i)
    /\ [][C18_Step]_vars

\* the second scan has ended after one file was edited: its row alone carries
\* a new digest
C18_Witness ==
    /\ pc = "idle" /\ log # <<>> /\ log[1].exit = "ok" /\ ~log[1].cmd.dry_run
    /\ Cardinality(Changed) = 1
    /\ \A i \in 1..Len(files) :
           /\ files[i].sha256 = Digest(content[files[i].path])
           /\ files[i].sha256 # Digest(OriginalBytes[files[i].path])
                  <=> files[i].path \in Changed
    /\ \A i \in 1..Len(files) : files[i].scan_run_id = 2

\* C19: in every reachable state, a sidecar <root>/<digest>.txt.gz that exists
\* is the output path of some extraction row with status success, also between
\* the worker's write and the supervisor's recording, and after a worker that
\* was declared hung has finished.
C19_SidecarHasSuccessRow ==
    \A d \in DOMAIN sidecars :
        \E e \in Rows(extractions) : e.status = "success" /\ e.output_path = d

\* C20: for every extraction row with status success and a sidecar path, the
\* text in the sidecar is at most extraction.max_text_length characters long,
\* whether the extracted text was shorter than, equal to or longer than the
\* maximum.
C20_SidecarWithinMaxLength ==
    \A e \in Rows(extractions) :
        (e.status = "success" /\ e.output_path # NoPath) =>
            /\ e.output_path \in DOMAIN sidecars
            /\ Len(sidecars[e.output_path]) <= config.max_text_length

\* the files of the catalog whose lowercased suffix is in skip_extensions
SkipListed == {f \in Rows(files) : Lower(PathSuffix(f.path)) \in skip_extensions}

C21_State ==
    \A f \in SkipListed :
        /\ \A force \in BOOLEAN :
               /\ f \notin NeedsExtraction(files, extractions, force)
               /\ \A offset \in 0..NumFiles, batch_size \in {PageSize, NumFiles} :
                      \A fi \in Rows(get_files_for_extraction(files, extractions, force,
                                                              offset, batch_size)) :
                          fi.id # f.id
        /\ f.sha256 \notin DOMAIN sidecars
        /\ \A e \in Rows(extractions) :
               e.file_id = f.id =>
                   /\ e.status = "skipped"
                   /\ e.method = "none"
                   /\ e.output_path = NoPath
                   /\ e.error = [msg |-> "Extension  in skip list", elapsed |-> 0,
                                 detail |-> PathSuffix(f.path)]

C21_Step ==
    (/\ calls' = calls + 1
     /\ last_call'.op = "extract_file"
     /\ \E f \in SkipListed : f.id = last_call'.file_id)
        => /\ last_call'.value = <<>>
           /\ sidecars' = sidecars

Matching(suffix, use_docling) ==
    IF Lower(suffix) = ".pdf"
    THEN (IF use_docling THEN <<"docling">> ELSE <<>>) \o <<"pypdf", "vision-ocr">>
    ELSE IF Lower(suffix) = ".docx"
    THEN (IF use_docling THEN <<"docling">> ELSE <<>>)
    ELSE IF Lower(suffix) = ".txt" THEN <<"text">>
    ELSE <<>>

\* a sequence is some number (1..MaxPipelines) of repetitions of another
RECURSIVE Repeat(_, _)
Repeat(seq, n) == IF n = 0 THEN <<>> ELSE seq \o Repeat(seq, n - 1)

IsPrefix(a, b) == Len(a) <= Len(b) /\ a = SubSeq(b, 1, Len(a))

\* the file of the last call of extract_file and its extraction row
LastFile == CHOOSE f \in Rows(files) : f.id = last_call.file_id
LastRow == CHOOSE e \in Rows(extractions) :
               e.file_id = last_call.file_id /\ e.extraction_run_id = 2

C22_State ==
    (last_call.op = "extract_file" /\ LastFile \notin SkipListed) =>
        LET f     == LastFile
            row   == LastRow
            tried == last_call.value
            kind  == disk[f.path]
            m     == Matching(FileSuffix(f.path, kind), config.use_docling)
        IN  IF m = <<>>
            THEN /\ tried = <<>>
                 /\ row.status = "skipped"
                 /\ row.method = "none"
                 /\ row.error = [msg |-> "No extractor available for this file type",
                                 elapsed |-> 0, detail |-> Null]
            ELSE /\ tried # <<>>
                 \* registration order, one round per pipeline constructed
                 /\ IsPrefix(tried, Repeat(m, MaxPipelines))
                 \* every extractor before the last one tried has failed
                 /\ \A i \in 1..(Len(tried) - 1) :
                        extract(tried[i], kind).status = "failed"
                 /\ IF extract(tried[Len(tried)], kind).status = "success"
                    THEN /\ row.status = "success"
                         /\ row.method = tried[Len(tried)]
                         /\ row.error = NoError
                    ELSE /\ \E n \in 1..MaxPipelines : tried = Repeat(m, n)
                         /\ row.status = "failed"
                         /\ row.method = "all"
                         /\ row.error =
                                [msg |-> "All extractors failed. Last error: ",
                                 elapsed |-> 0,
                                 detail |-> extract(tried[Len(tried)], kind).error]

\* C22: extract_file invokes the extractors that match the path in
\* registration order and stops at the first success, whose name is the
\* recorded method; an extractor that fails or times out is followed by the
\* next one; when all have failed the result is failed, method all, with the
\* error "All extractors failed. Last error: " quoting the error of the last
\* extractor tried; when none matches the result is skipped with the error
\* "No extractor available for this file type".
C22_ChainProtocol == C22_State

\* with docling enabled, a scanned PDF: docling timed out, pypdf found no
\* text, vision-ocr succeeded; and another file on which every extractor failed
C22_Witness ==
    /\ last_call.op = "extract_file"
    /\ last_call.value = <<"docling", "pypdf", "vision-ocr">>
    /\ LastRow.status = "success"
    /\ LastRow.method = "vision-ocr"
    /\ \E e \in Rows(extractions) :
           /\ e.status = "failed"
           /\ e.method = "all"
           /\ e.error.detail = "Failed to read file: "

\* C23: a file that was extracted and whose sidecar has been deleted is
\* returned again by the files-needing-extraction query (without force), so
\* that the next extract run recreates the sidecar.
C23_ClearedFilesRequeued ==
    \A f \in Rows(files) :
        (/\ HasSuccess(extractions, f.id)
         /\ f.sha256 \notin DOMAIN sidecars)
            => \E fi \in Rows(get_files_for_extraction(files, extractions, FALSE,
                                                       0, NumFiles)) :
                   fi.id = f.id

\* C24: during an extract run no worker task accesses the catalog: no worker
\* process opens the catalog database, reads its schema version or writes to
\* it; every catalog read and write is the supervisor's.
C24_WorkersNeverOpenCatalog ==
    ~(last_call.op = "open" /\ last_call.value = "worker")

\* a step records the task of a handle as hung
DeclaredHung(h) ==
    /\ h \in DOMAIN active_jobs
    /\ h \notin DOMAIN active_jobs'
    /\ \E e \in Rows(extractions') \ Rows(extractions) :
           IsHungRow(e) /\ e.file_id = active_jobs[h].file_info.id

C25_Step ==
    \A h \in DOMAIN active_jobs :
        DeclaredHung(h) => h \in Running(pool, cmd.workers)

\* C25: tasks are independent. The status recorded for a file comes from that
\* file's own extraction: a file is recorded as hung only if a pool process
\* had taken its task, never because the task of another file is hanging in
\* the pool, for any number of workers.
C25_TasksIndependent == [][C25_Step]_vars

\* a step of a scan command given --dry-run
DryRunScanStep ==
    \/ pc = "idle" /\ pc' = "scan" /\ cmd'.dry_run
    \/ pc = "scan" /\ cmd.dry_run

\* C26: a dry-run scan does not write to the catalog: no step of
\* scan(root, dry_run=True) changes the runs, files, extractions or labels.
C26_DryRunScanWritesNothing == [][DryRunScanStep => UNCHANGED catalog]_vars

\* the tree has a symlink cycle: a symlink to the root or to the directory
\* the symlink is in
HasSymlinkCycle(t) ==
    \E n \in 1..Len(t) :
        t[n].kind = "symlink" /\ t[n].target \in {0, t[n].parent}

C27_State ==
    (walk.status # "none" /\ ~walk.follow_symlinks) =>
        \* nothing yielded is a symlink or lies behind one
        /\ \A i \in 1..Len(walk.yielded) :
               /\ ~walk.yielded[i].through
               /\ ~walk.yielded[i].symlink
               /\ walk.tree[walk.yielded[i].item].kind = "file"
               /\ walk.tree[walk.yielded[i].item].parent = walk.yielded[i].dir
        \* no file twice
        /\ \A i, j \in 1..Len(walk.yielded) :
               walk.yielded[i].item = walk.yielded[j].item => i = j
        \* the walk ends by exhausting the tree, within a step per entry and
        \* a return per directory
        /\ walk.status \in {"walking", "done"}
        /\ walk.steps <= 2 * MaxNodes + 1
        /\ walk.status = "walking" <=> walk.stack # <<>>
        /\ walk.status = "done" =>
               \A n \in 1..Len(walk.tree) :
                   walk.tree[n].kind = "file"
                       => \E i \in 1..Len(walk.yielded) : walk.yielded[i].item = n

\* every step of the walk is counted
C27_Step == walk' # walk => walk'.steps = walk.steps + 1

\* C27: with follow_symlinks=false the walk of iter_files ends on every
\* finite tree, also one with a symlink to the root or to its own directory
\* (the number of its steps is bounded by the size of the tree and it ends
\* exhausted, not in an error), and what it yields are the regular files of
\* the tree, once each: never a symlink to a file, never a file below a
\* symlinked directory.
C27_WalkTerminates == []C27_State /\ [][C27_Step]_vars

\* a walk without following symlinks is over on a tree with a symlink to the
\* root, a symlink to a file and a regular file, which alone was yielded
C27_Witness ==
    /\ walk.status = "done"
    /\ ~walk.follow_symlinks
    /\ HasSymlinkCycle(walk.tree)
    /\ \E n \in 1..Len(walk.tree) :
           walk.tree[n].kind = "symlink" /\ is_file(walk.tree, n)
    /\ Len(walk.yielded) = 1

\* C28: in every reachable catalog state the file_id of each extraction row
\* and of each label row is the id of a row of the files table, whatever
\* calls of insert_file, record_extraction and record_label were made.
C28_FileIdsExist ==
    /\ \A e \in Rows(extractions) : \E f \in Rows(files) : f.id = e.file_id
    /\ \A l \in Rows(labels) : \E f \in Rows(files) : f.id = l.file_id

\* C29: the planner flags a label needs_review exactly when its confidence
\* is below 0.5 or its doc_type is "other" or "uncategorized", for every
\* confidence from 0 to 1, 0 included.
C29_NeedsReviewRule ==
    last_call.op = "should_needs_review" =>
        (last_call.returned <=>
            \/ last_call.value.confidence < 50
            \/ last_call.value.doc_type \in {"other", "uncategorized"})

C30_State ==
    last_call.op = "label_document" =>
        /\ Len(last_call.returned) = PromptHashLength
        /\ last_call.returned = get_prompt_version(last_call.value.system_prompt)

C30_Step ==
    (last_call.op = "label_document" /\ last_call'.op = "label_document") =>
        (last_call'.returned = last_call.returned
            <=> last_call'.value.system_prompt = last_call.value.system_prompt)

\* C30: the prompt version stored on label rows has 16 digits and is the same
\* for every file labeled under the same prompt templates, whatever the
\* file's name, folders and text and whatever vocabularies are configured; it
\* is another one when the text of the system prompt is another.
C30_PromptVersionOfTemplatesOnly == []C30_State /\ [][C30_Step]_vars

\* a file was labeled whose prompts differ from those of the example context
C30_Witness ==
    /\ last_call.op = "label_document"
    /\ last_call.value.prompts #
           get_labeling_prompt(last_call.value.system_prompt, ExampleContext)
    /\ last_call.value.system_prompt = "SYSTEM_PROMPT (edited)"

(* ---------------------------------------------------------------------- *)
(* C31. Workers never block on supply: while undispatched work remains     *)
(* (the ready queue holds a task, or the batch iterator still has a page   *)
(* to give), the number of in-flight tasks equals the worker count -       *)
(* after the start and after every sweep.                                  *)
(* ---------------------------------------------------------------------- *)
\* the batch iterator is not exhausted: its next page would not be empty
IteratorHasWork ==
    iter_files_for_extraction(batch_iterator, files, extractions, cmd.force,
                              cmd.limit, PageSize).batch # <<>>

WorkRemains == task_queue # <<>> \/ IteratorHasWork

C31_WorkersNeverBlockOnSupply ==
    (pc = "extract" /\ WorkRemains) =>
        Cardinality(DOMAIN active_jobs) = cmd.workers

(* ---------------------------------------------------------------------- *)
(* C32. The ready queue is bounded: its length never exceeds               *)
(* 3 x workers + page size - 1. Pre-fill stops at the first page that      *)
(* brings it to 3 x workers or more; afterwards a sweep loads at most one  *)
(* page, and only when the length is below 2 x workers.                    *)
(* ---------------------------------------------------------------------- *)
QueueBound == 3 * cmd.workers + PageSize - 1

\* tasks submitted in a step: they were popped from the queue
Submitted == next_worker_slot' - next_worker_slot

C32_State == pc = "extract" => Len(task_queue) <= QueueBound

C32_Step ==
    \* the start: the queue as pre-filled, before the first tasks are popped
    /\ (pc = "idle" /\ pc' = "extract") =>
           Len(task_queue') + Submitted <= 3 * cmd'.workers + PageSize - 1
    \* a sweep: one page at most, only below 2 x workers, and the queue after it
    /\ (pc = "extract" /\ pc' = "extract" /\ batch_iterator' # batch_iterator) =>
           /\ Len(task_queue) < 2 * cmd.workers
           /\ batch_iterator'.offset - batch_iterator.offset <= PageSize
           /\ Len(task_queue') + Submitted <= 2 * cmd.workers - 1 + PageSize
    /\ (pc = "extract" /\ pc' = "extract" /\ batch_iterator' = batch_iterator) =>
           Len(task_queue') + Submitted = Len(task_queue)

Removed == DOMAIN active_jobs \ DOMAIN active_jobs'

C33_State ==
    pc = "extract" => Cardinality(DOMAIN active_jobs) <= cmd.workers

C33_Step ==
    /\ (pc = "idle" /\ pc' = "extract") =>
           next_worker_slot' <= cmd'.workers
    /\ (pc = "extract" /\ pc' = "extract") =>
           next_worker_slot' - next_worker_slot <= Cardinality(Removed)

C33_OutstandingHandlesBounded == []C33_State /\ [][C33_Step]_vars

\* every slot of a run with several workers is taken again after a sweep
\* that resolved tasks and submitted others
C33_Witness ==
    /\ pc = "extract"
    /\ cmd.workers > 1
    /\ Cardinality(DOMAIN active_jobs) = cmd.workers
    /\ next_worker_slot > cmd.workers

(* ---------------------------------------------------------------------- *)
(* C34. No stall: at the start of every sweep of the supervisor, if the    *)
(* ready queue is non-empty then at least one task is in flight. (Tasks    *)
(* are submitted only at the start and when a completion is processed, so  *)
(* a queue with tasks and nothing in flight would never be served.)        *)
(* ---------------------------------------------------------------------- *)
C34_State ==
    (pc = "extract" /\ task_queue # <<>>) => active_jobs # NoJobs

\* tasks are submitted only at the start and on a completion
C34_Step ==
    (pc = "extract" /\ pc' = "extract" /\ next_worker_slot' > next_worker_slot) =>
        Removed # {}

C34_NoStall == []C34_State /\ [][C34_Step]_vars

\* a sweep has resolved every task that was in flight; the queue holds a task
\* that a refill loaded after pre-fill, and a task submitted in that sweep is
\* in flight
C34_Witness ==
    /\ pc = "extract"
    /\ task_queue # <<>>
    /\ batch_iterator.offset > 3 * cmd.workers
    /\ task_queue[Len(task_queue)].path > 3 * cmd.workers
    /\ active_jobs # NoJobs
    /\ \A h \in DOMAIN active_jobs : active_jobs[h].elapsed = 0 /\ h >= cmd.workers

(* ---------------------------------------------------------------------- *)
(* C35. Within one extract run no file is dispatched to the pool more      *)
(* than once, with and without --force and however completions and page    *)
(* loads interleave; so a file gets at most one recorded result per run.   *)
(* ---------------------------------------------------------------------- *)
\* the files of the tasks in flight
InFlightIds == {active_jobs[h].file_info.id : h \in DOMAIN active_jobs}
\* the files with a recorded result of the running extract
RecordedIds ==
    {e.file_id : e \in {x \in Rows(extractions) : x.extraction_run_id = cmd.run_id}}
\* the files waiting in the ready queue
QueuedIds == {task_queue[i].id : i \in 1..Len(task_queue)}

\* every task submitted so far was for another file (next_worker_slot counts
\* the submissions), and no waiting task is for a file already dispatched
C35_State ==
    pc = "extract" =>
        /\ next_worker_slot = Cardinality(InFlightIds \cup RecordedIds)
        /\ Cardinality(QueuedIds) = Len(task_queue)
        /\ QueuedIds \cap (InFlightIds \cup RecordedIds) = {}

\* a sweep records one result for each handle it removes
C35_Step ==
    (pc = "extract" /\ pc' = "extract") =>
        Len(extractions') - Len(extractions) = Cardinality(Removed)

C35_NoFileDispatchedTwice == []C35_State /\ [][C35_Step]_vars

\* a --force run in which a page was loaded after results had been recorded,
\* and the file of that page has been dispatched
C35_Witness ==
    /\ pc = "extract" /\ cmd.force
    /\ batch_iterator.offset > 3 * cmd.workers
    /\ RecordedIds # {}
    /\ \E h \in DOMAIN active_jobs : active_jobs[h].file_info.path > 3 * cmd.workers

(* ---------------------------------------------------------------------- *)
(* C36. No two in-flight tasks are ever assigned the same logical worker   *)
(* slot of 0..workers-1: a newly submitted task takes a slot that no       *)
(* unresolved task holds.                                                  *)
(* ---------------------------------------------------------------------- *)
C36_SlotsDistinct ==
    pc = "extract" =>
        \A h, g \in DOMAIN active_jobs :
            h # g => active_jobs[h].worker_slot # active_jobs[g].worker_slot

(* ---------------------------------------------------------------------- *)
(* C37. For each file, extract_file invokes each extractor kind (docling,  *)
(* pypdf, vision-ocr, text) at most once, however many pipelines the       *)
(* worker process has constructed for earlier tasks.                       *)
(* ---------------------------------------------------------------------- *)
C37_EachExtractorAtMostOnce ==
    (pc = "pipeline" /\ last_call.op = "extract_file") =>
        \A name \in Extractors :
            Cardinality({i \in 1..Len(last_call.value) : last_call.value[i] = name}) <= 1

(* ---------------------------------------------------------------------- *)
(* C38. Success is monotonic: once a file has an extraction row with       *)
(* status = success it has one in every later state reached by scan,       *)
(* extract (with or without --force) and label, so it never re-enters the  *)
(* files-needing-extraction queue of a run without --force.                *)
(* ---------------------------------------------------------------------- *)
C38_State ==
    \A f \in Rows(files) :
        HasSuccess(extractions, f.id) => f \notin NeedsExtraction(files, extractions, FALSE)

C38_Step ==
    \A i \in 1..Len(files) :
        HasSuccess(extractions, files[i].id) =>
            /\ Len(files') >= i /\ files'[i].id = files[i].id
            /\ HasSuccess(extractions', files[i].id)

C38_SuccessMonotonic == []C38_State /\ [][C38_Step]_vars

\* a file extracted in one run has the failed row of a later --force run,
\* and still its success row
C38_Witness ==
    \E i, j \in 1..Len(extractions) :
        /\ extractions[i].file_id = extractions[j].file_id
        /\ extractions[i].status = "success"
        /\ extractions[j].status = "failed"
        /\ extractions[j].extraction_run_id > extractions[i].extraction_run_id

(* ---------------------------------------------------------------------- *)
(* C39. The sidecar path that files-needing-labeling hands to the labeling *)
(* loop for a file is the sidecar keyed by the file's current digest       *)
(* (<root>/<current digest>.txt.gz), in every state reachable by scans and *)
(* extract runs, also after a re-scan has changed the digest.              *)
(* ---------------------------------------------------------------------- *)
C39_SidecarOfCurrentDigest ==
    \A force \in BOOLEAN :
        \A row \in Rows(get_files_for_labeling(files, extractions, labels, force, 0)) :
            \E f \in Rows(files) :
                f.id = row.id /\ row.extraction_path = f.sha256

(* ---------------------------------------------------------------------- *)
(* C40. If the default model returns a valid label that triggers           *)
(* escalation and the escalated call then exhausts its retries, no label   *)
(* row is written for the file: the valid initial result is discarded,     *)
(* label_file reports an error, the file stays in the files-needing-       *)
(* labeling queue, and at most 2 x llm.max_retries chat-completion         *)
(* requests were made for the file.                                        *)
(* ---------------------------------------------------------------------- *)
\* the escalated call of label_document has run out of attempts
EscalationExhausted ==
    InLabelDocument /\ llm.model = "escalation_model" /\ Exhausted

C40_Step ==
    (EscalationExhausted /\ label_files' # label_files) =>
        LET file_id == Head(label_files).id
        IN  /\ llm.initial_result # NoLabel
            /\ labels' = labels
            /\ ~(\E l \in Rows(labels') : l.file_id = file_id)
            /\ last_result'.file = file_id
            /\ last_result'.label = NoLabel /\ ~last_result'.escalated
            /\ last_result'.error.raised
            /\ stats'.failed = stats.failed + 1 /\ stats'.success = stats.success
            /\ \E f \in NeedsLabeling(files', extractions', labels', FALSE) : f.id = file_id
            /\ Len(llm'.requests) <= 2 * config.max_retries
            /\ CountModel(llm'.requests, "escalation_model") = config.max_retries

C40_EscalationFailureDiscardsLabel == [][C40_Step]_vars

\* the default model answered validly at its last attempt, every request to
\* the escalation model failed, and label_file has returned the error
C40_Witness ==
    /\ pc = "label" /\ llm.model = Null
    /\ config.max_retries = MaxRetries
    /\ Len(llm.requests) = 2 * config.max_retries
    /\ llm.requests[Len(llm.requests)] = "escalation_model"
    /\ last_result.error.raised /\ last_result.error.attempts = config.max_retries
    /\ last_result.error.last_error \notin {Null, "other"}
    /\ ~(\E l \in Rows(labels) : l.file_id = last_result.file)

====
